---- MODULE Spec2Model ----
(***************************************************************************)
(* Memory tiering and prompt cache of the Zyra agent.                      *)
(*                                                                         *)
(* Tables of the persistent store (short_term_memory, vit_memory,          *)
(* system_prompt_cache), the MemoryManager singleton (stmCache), the       *)
(* updateSystemPrompt edge function and the PromptManager reader.          *)
(*                                                                         *)
(* Identifiers are sequences of '_'-free segments: the string              *)
(* "u1_t1" is <<"u1","t1">>, so that split('_')[0] is computed, not        *)
(* assumed.  Texts are abstracted by the id of the row that carries them.  *)
(* Time is counted in minutes.                                             *)
(***************************************************************************)
EXTENDS Integers, Sequences, FiniteSets, TLC

\* ------------------------------------------------------------------ bounds
MaxAppends == 12
MaxOther == 1
MaxFaulty == 11
MaxConc == 2
Warm == 9
MaxTurns == 1
MaxVIT == 1
MaxNow == 61
MaxTrigTurns == 1
MaxPriorityArg == 8
MaxChatTurns == 3
MaxMemTurns == 1
MaxReadTurns == 12
MaxVitRows == 25
MaxTurnChats == 2
MaxFallbackTurns == 7
MaxFallbackVit == 4
MaxTextLen == 2002

\* ------------------------------------------------------- program constants
MAX_STM == 10
MAX_AGE == 60
HIGH_THRESHOLD == 4
MIN_PROMPT_PRIORITY == 3
VIT_LIMIT == 20
SEMANTIC_LIMIT == 50
EPISODIC_LIMIT == 5
SESSION_LOOKBACK == 5
FALLBACK_TURNS == 5

Users == { <<"u1">> }
Sessions == { <<"u1", "t1">>, <<"u1", "t2">> }
LongSession == <<"u1", "t1">>
Priorities == {2, 5}
TickSteps == {60, 61}
\* priorities a caller of addVIT may pass (any number) and the ones the
\* memory UI's select offers
ApiPriorities == {0, 3, 5, 7}
UiPriorities == {3, 4}

NoUser == << >>
NoRow == [prompt |-> [pre |-> "", vit |-> << >>, sem |-> << >>, stm |-> << >>, epi |-> << >>],
          last_updated |-> -1]
Undefined == -1

VARIABLES stm, serial, vit, semantic, episodic, cache, stmCache, now, last, procs, call

vars == <<stm, serial, vit, semantic, episodic, cache, stmCache, now, last, procs, call>>

\* ------------------------------------------------------------ store helpers

\* .eq('session_id', sessionId) on short_term_memory
SessionRows(t, s) == {r \in t : r.session_id = s}

\* .select('*', { count: 'exact', head: true }).eq('session_id', sessionId)
CountRows(t, s) == Cardinality(SessionRows(t, s))

\* .order('turn_number', { ascending: true }).limit(1): the rows the store
\* may return as first; rows that tie on turn_number come in any order.
OldestRows(t, s) ==
  {r \in SessionRows(t, s) : \A q \in SessionRows(t, s) : r.turn_number <= q.turn_number}

Min(a, b) == IF a <= b THEN a ELSE b

\* First n elements of a sequence (.limit(n))
Limit(q, n) == SubSeq(q, 1, Min(n, Len(q)))

\* order by turn_number ascending (ties: insertion order)
TurnAsc(a, b) == \/ a.turn_number < b.turn_number
                 \/ a.turn_number = b.turn_number /\ a.id < b.id
\* order by turn_number descending (ties: insertion order)
TurnDesc(a, b) == \/ a.turn_number > b.turn_number
                  \/ a.turn_number = b.turn_number /\ a.id < b.id
\* order by updated_at desc (ties: insertion order)
SemOrder(a, b) == \/ a.updated_at > b.updated_at
                  \/ a.updated_at = b.updated_at /\ a.id < b.id
\* order by importance desc, created_at desc (ties: insertion order)
EpiOrder(a, b) == \/ a.importance > b.importance
                  \/ a.importance = b.importance /\ a.created_at > b.created_at
                  \/ a.importance = b.importance /\ a.created_at = b.created_at /\ a.id < b.id
\* order by priority desc, last_updated desc (ties: insertion order)
VitOrder(a, b) == \/ a.priority > b.priority
                  \/ a.priority = b.priority /\ a.last_updated > b.last_updated
                  \/ a.priority = b.priority /\ a.last_updated = b.last_updated /\ a.id < b.id

\* A finite set of rows as the sequence the store returns for each order:
\* the row at position k is the one that k - 1 rows precede.
SortTurnAsc(S) ==
  [k \in 1..Cardinality(S) |->
     CHOOSE r \in S : Cardinality({q \in S : TurnAsc(q, r)}) = k - 1]

SortTurnDesc(S) ==
  [k \in 1..Cardinality(S) |->
     CHOOSE r \in S : Cardinality({q \in S : TurnDesc(q, r)}) = k - 1]

SortVit(S) ==
  [k \in 1..Cardinality(S) |->
     CHOOSE r \in S : Cardinality({q \in S : VitOrder(q, r)}) = k - 1]

SortSem(S) ==
  [k \in 1..Cardinality(S) |->
     CHOOSE r \in S : Cardinality({q \in S : SemOrder(q, r)}) = k - 1]

SortEpi(S) ==
  [k \in 1..Cardinality(S) |->
     CHOOSE r \in S : Cardinality({q \in S : EpiOrder(q, r)}) = k - 1]

\* ---------------------------------------------------------------- prompts

EmptyText == [pre |-> "", vit |-> << >>, sem |-> << >>, stm |-> << >>, epi |-> << >>]
BasePrompt == [pre |-> "base", vit |-> << >>, sem |-> << >>, stm |-> << >>, epi |-> << >>]

StmLine(r) == <<r.turn_number, r.id>>
VitLine(r) == <<r.priority, r.id>>

MapStm(q) == [k \in 1..Len(q) |-> StmLine(q[k])]
MapVit(q) == [k \in 1..Len(q) |-> VitLine(q[k])]

\* "- key: value" and "[Importance i] summary"
SemLine(r) == <<r.key, r.value>>
EpiLine(r) == <<r.importance, r.id>>

MapSem(q) == [k \in 1..Len(q) |-> SemLine(q[k])]
MapEpi(q) == [k \in 1..Len(q) |-> EpiLine(q[k])]

\* sessionId.split('_')[0]
SplitFirst(s) == <<Head(s)>>

\* The priority filter is left out of the query.
VitQueryAnyPriority(v, u, p) ==
  SortVit({r \in v : r.user_id = u})

\* vit_memory rows .eq('user_id', u).gte('priority', p) ordered
VitQuery(v, u, p) ==
  SortVit({r \in v : r.user_id = u /\ r.priority >= p})

\* semantic_memory rows .eq('user_id', u) newest first, .limit(50)
SemanticQuery(m, u) ==
  Limit(SortSem({r \in m : r.user_id = u}), SEMANTIC_LIMIT)

\* episodic_memory rows .eq('session_id', s) ordered, .limit(5); a failed
\* fetch has an error and no data, and only the error is logged.
EpisodicQuery(e, s, failed) ==
  IF failed THEN [error |-> TRUE, data |-> << >>]
  ELSE [error |-> FALSE,
        data |-> Limit(SortEpi({r \in e : r.session_id = s}), EPISODIC_LIMIT)]

\* The prompt text the edge function assembles from the four results: the
\* preamble, then one section for each result that has entries.
PromptText(stmT, vitT, semT, epiT, s, epiFailed) ==
  [pre |-> "enhanced",
   vit |-> MapVit(Limit(VitQuery(vitT, SplitFirst(s), MIN_PROMPT_PRIORITY), VIT_LIMIT)),
   sem |-> MapSem(SemanticQuery(semT, SplitFirst(s))),
   stm |-> MapStm(SortTurnAsc(SessionRows(stmT, s))),
   epi |-> MapEpi(EpisodicQuery(epiT, s, epiFailed).data)]

\* Only the five newest turns of the session go into the prompt.
EnhancedPromptRecent(stmT, vitT, s) ==
  [PromptText(stmT, vitT, semantic, episodic, s, FALSE)
     EXCEPT !.stm = MapStm(Limit(SortTurnDesc(SessionRows(stmT, s)), FALLBACK_TURNS))]

\* The prompt of an invocation whose fetches all succeed, the semantic and
\* episodic tables being the store's.
EnhancedPrompt(stmT, vitT, s) ==
  PromptText(stmT, vitT, semantic, episodic, s, FALSE)

\* Timestamp the store gives a cache row that is inserted or replaced.
RowTimestamp(t) == t

\* A row that exists keeps its last_updated when its prompt is replaced.
CacheUpsertKeepsTimestamp(c, s, p, t) ==
  [c EXCEPT ![s] = [prompt |-> p,
                    last_updated |-> IF c[s].last_updated = -1 THEN RowTimestamp(t)
                                     ELSE c[s].last_updated]]

\* system_prompt_cache.upsert({session_id, prompt})
CacheUpsert(c, s, p, t) ==
  [c EXCEPT ![s] = [prompt |-> p, last_updated |-> RowTimestamp(t)]]

\* The updateSystemPrompt edge function: f is the set of store calls that
\* fail during this invocation.
RebuildOk(f) ==
  f \cap {"invoke", "noSessionId", "rbSTM", "rbVIT", "rbSemantic", "rbUpsert"} = {}

\* The prompt an invocation assembles when the store calls in f fail and
\* it still reaches the upsert.
BuiltPrompt(stmT, vitT, s, f) ==
  IF "rbEpisodic" \in f
  THEN PromptText(stmT, vitT, semantic, episodic, s, TRUE)
  ELSE EnhancedPrompt(stmT, vitT, s)

\* The new text is added to the text the row already holds.
RebuildAppending(c, stmT, vitT, s, f, t) ==
  IF RebuildOk(f)
  THEN CacheUpsert(c, s,
         [BuiltPrompt(stmT, vitT, s, f)
            EXCEPT !.stm = (IF c[s].last_updated = -1 THEN << >> ELSE c[s].prompt.stm) \o @], t)
  ELSE c

\* An invocation that fails leaves the session with an empty prompt row.
RebuildClearing(c, stmT, vitT, s, f, t) ==
  IF RebuildOk(f) THEN CacheUpsert(c, s, BuiltPrompt(stmT, vitT, s, f), t)
  ELSE CacheUpsert(c, s, EmptyText, t)

\* A failed episodic fetch is thrown like the other three.
RebuildEpisodicThrows(c, stmT, vitT, s, f, t) ==
  IF RebuildOk(f) /\ "rbEpisodic" \notin f
  THEN CacheUpsert(c, s, BuiltPrompt(stmT, vitT, s, f), t)
  ELSE c

Rebuild(c, stmT, vitT, s, f, t) ==
  IF RebuildOk(f) THEN CacheUpsert(c, s, BuiltPrompt(stmT, vitT, s, f), t) ELSE c

\* Outcomes of one invocation of the edge function that differ in effect:
\* the calls run in order and the first failing one (other than the
\* tolerated episodic fetch) ends the invocation.
RebuildFaults ==
  { {}, {"invoke"}, {"rbSTM"}, {"rbVIT"}, {"rbSemantic"},
    {"rbEpisodic"}, {"rbUpsert"}, {"rbEpisodic", "rbUpsert"} }

\* The same outcomes and the request whose body carries no sessionId.
InvocationFaults == RebuildFaults \cup { {"noSessionId"} }

\* ------------------------------------------------------------ MemoryManager

\* The rows are ordered oldest first before the limit is applied.
GetSTMEntriesOldest(stmT, s, limit, failed) ==
  IF failed THEN << >> ELSE Limit(SortTurnAsc(SessionRows(stmT, s)), limit)

\* getSTMEntries(sessionId, limit): newest first; [] when the read fails
GetSTMEntries(stmT, s, limit, failed) ==
  IF failed THEN << >> ELSE Limit(SortTurnDesc(SessionRows(stmT, s)), limit)

\* getVITEntries(userId, minPriority); [] when the read fails
GetVITEntries(vitT, u, minPriority, failed) ==
  IF failed THEN << >> ELSE VitQuery(vitT, u, minPriority)

\* entries.sort((a, b) => a.turn_number - b.turn_number): stable, entries
\* that compare equal keep their order.
SortByTurn(q) ==
  [k \in 1..Len(q) |->
     q[CHOOSE i \in 1..Len(q) :
         Cardinality({j \in 1..Len(q) :
            \/ q[j].turn_number < q[i].turn_number
            \/ q[j].turn_number = q[i].turn_number /\ j < i}) = k - 1]]

\* entries.sort((a, b) => b.priority - a.priority): stable
SortByPriority(q) ==
  [k \in 1..Len(q) |->
     q[CHOOSE i \in 1..Len(q) :
         Cardinality({j \in 1..Len(q) :
            \/ q[j].priority > q[i].priority
            \/ q[j].priority = q[i].priority /\ j < i}) = k - 1]]

\* The entries are printed in the order the store returned them.
FormatSTMForPromptUnsorted(entries) == MapStm(entries)

\* formatSTMForPrompt: ascending by turn_number
FormatSTMForPrompt(entries) == MapStm(SortByTurn(entries))

\* formatVITForPrompt: highest priority first
FormatVITForPrompt(entries) == MapVit(SortByPriority(entries))

\* PromptManager.buildMemoryContext appended to the base prompt; the base
\* prompt alone when both parts are empty.
FallbackPrompt(stmT, vitT, s, u, f) ==
  [pre |-> "base",
   vit |-> FormatVITForPrompt(GetVITEntries(vitT, u, MIN_PROMPT_PRIORITY, "ctxVIT" \in f)),
   sem |-> << >>,
   stm |-> FormatSTMForPrompt(GetSTMEntries(stmT, s, FALLBACK_TURNS, "ctxSTM" \in f)),
   epi |-> << >>]

\* A row counts as stale already at exactly 60 minutes.
IsStaleInclusive(row, t) == row.last_updated <= t - MAX_AGE

\* lastUpdated < now - 60 min
IsStale(row, t) == row.last_updated < t - MAX_AGE

\* The stale branch returns the text read before the rebuild.
GetCachedPromptNoReread(c, stmT, vitT, s, f, rf, t) ==
  IF "cacheRead" \in f THEN [value |-> EmptyText, cache |-> c, rebuild |-> "none"]
  ELSE IF c[s] = NoRow THEN [value |-> EmptyText, cache |-> c, rebuild |-> "none"]
  ELSE IF IsStale(c[s], t)
    THEN LET c2 == Rebuild(c, stmT, vitT, s, rf, t)
         IN [value |-> c[s].prompt, cache |-> c2,
             rebuild |-> IF RebuildOk(rf) THEN "ok" ELSE "failed"]
  ELSE [value |-> c[s].prompt, cache |-> c, rebuild |-> "none"]

\* A failed second read is thrown into the catch-all, which returns ''.
GetCachedPromptRethrow(c, stmT, vitT, s, f, rf, t) ==
  IF "cacheRead" \in f THEN [value |-> EmptyText, cache |-> c, rebuild |-> "none"]
  ELSE IF c[s] = NoRow THEN [value |-> EmptyText, cache |-> c, rebuild |-> "none"]
  ELSE IF IsStale(c[s], t)
    THEN LET c2 == Rebuild(c, stmT, vitT, s, rf, t)
         IN [value |-> IF "cacheReread" \in f THEN EmptyText ELSE c2[s].prompt,
             cache |-> c2,
             rebuild |-> IF RebuildOk(rf) THEN "ok" ELSE "failed"]
  ELSE [value |-> c[s].prompt, cache |-> c, rebuild |-> "none"]

\* MemoryManager.getCachedPrompt: the text returned, the cache table it
\* leaves and whether it invoked the edge function.
GetCachedPrompt(c, stmT, vitT, s, f, rf, t) ==
  IF "cacheRead" \in f THEN [value |-> EmptyText, cache |-> c, rebuild |-> "none"]
  ELSE IF c[s] = NoRow THEN [value |-> EmptyText, cache |-> c, rebuild |-> "none"]
  ELSE IF IsStale(c[s], t)
    THEN LET c2 == Rebuild(c, stmT, vitT, s, rf, t)
         IN [value |-> IF "cacheReread" \in f THEN c[s].prompt ELSE c2[s].prompt,
             cache |-> c2,
             rebuild |-> IF RebuildOk(rf) THEN "ok" ELSE "failed"]
  ELSE [value |-> c[s].prompt, cache |-> c, rebuild |-> "none"]

\* The cached text is used without the check that it is non-empty.
GenerateFinalPromptUnchecked(c, stmT, vitT, s, u, f, rf, t) ==
  LET g == GetCachedPrompt(c, stmT, vitT, s, f, rf, t)
  IN [value |-> g.value, cache |-> g.cache, rebuild |-> g.rebuild]

\* A miss stores the text it built as the session's cache row.
GenerateFinalPromptStoring(c, stmT, vitT, s, u, f, rf, t) ==
  LET g == GetCachedPrompt(c, stmT, vitT, s, f, rf, t)
      built == IF u # NoUser THEN FallbackPrompt(stmT, vitT, s, u, f) ELSE BasePrompt
  IN IF g.value # EmptyText
     THEN [value |-> g.value, cache |-> g.cache, rebuild |-> g.rebuild]
     ELSE [value |-> built, cache |-> CacheUpsert(g.cache, s, built, t), rebuild |-> g.rebuild]

\* PromptManager.generateFinalPrompt (systemPrompt of the result)
GenerateFinalPrompt(c, stmT, vitT, s, u, f, rf, t) ==
  LET g == GetCachedPrompt(c, stmT, vitT, s, f, rf, t)
  IN [value |-> IF g.value # EmptyText THEN g.value
                ELSE IF u # NoUser THEN FallbackPrompt(stmT, vitT, s, u, f)
                ELSE BasePrompt,
      cache |-> g.cache,
      rebuild |-> g.rebuild]

\* The rebuild is invoked only above 10 turns (actualCount > 10).
MaybeTriggerPromptUpdateAbove(c, stmT, vitT, sc, s, f, rf, t) ==
  LET cachedCount == sc[s]
      mustCount == cachedCount = Undefined \/ cachedCount = 0
      countFailed == mustCount /\ "triggerCount" \in f
      actualCount == IF mustCount THEN CountRows(stmT, s) ELSE cachedCount
      sc2 == IF mustCount /\ ~countFailed THEN [sc EXCEPT ![s] = actualCount] ELSE sc
      fire == ~countFailed /\ actualCount > MAX_STM
  IN [cache |-> IF fire THEN Rebuild(c, stmT, vitT, s, rf, t) ELSE c,
      stmCache |-> sc2,
      rebuild |-> IF ~fire THEN "none" ELSE IF RebuildOk(rf) THEN "ok" ELSE "failed"]

\* MemoryManager.maybeTriggerPromptUpdate: the cache table and the stmCache
\* it leaves, and whether it invoked the edge function.
MaybeTriggerPromptUpdate(c, stmT, vitT, sc, s, f, rf, t) ==
  LET cachedCount == sc[s]
      mustCount == cachedCount = Undefined \/ cachedCount = 0
      countFailed == mustCount /\ "triggerCount" \in f
      actualCount == IF mustCount THEN CountRows(stmT, s) ELSE cachedCount
      sc2 == IF mustCount /\ ~countFailed THEN [sc EXCEPT ![s] = actualCount] ELSE sc
      fire == ~countFailed /\ actualCount >= MAX_STM
  IN [cache |-> IF fire THEN Rebuild(c, stmT, vitT, s, rf, t) ELSE c,
      stmCache |-> sc2,
      rebuild |-> IF ~fire THEN "none" ELSE IF RebuildOk(rf) THEN "ok" ELSE "failed"]

NoVictim == [id |-> 0, session_id |-> << >>, turn_number |-> 0]

\* The rows the eviction step of an append may delete.
Victims(stmT, s) ==
  IF CountRows(stmT, s) >= MAX_STM THEN OldestRows(stmT, s) ELSE {NoVictim}

\* Turn number given to the row an append inserts.
NextTurnNumber(currentCount) == currentCount + 1

\* The eviction starts one row too late (currentCount > 10).
AppendRowsLate(stmT, s, id, f, victim) ==
  IF "count" \in f
  THEN [status |-> "throw", stm |-> stmT, turn |-> 0, errs |-> {"count"}]
  ELSE LET currentCount == CountRows(stmT, s)
           turnCount == NextTurnNumber(currentCount)
           atLimit == currentCount > MAX_STM
           evictErrs == IF currentCount < MAX_STM THEN {}
                        ELSE IF "oldest" \in f THEN {"oldest"}
                        ELSE IF "delete" \in f THEN {"delete"}
                        ELSE {}
           kept == IF atLimit /\ evictErrs = {} THEN stmT \ {victim} ELSE stmT
       IN IF "insert" \in f
          THEN [status |-> "throw", stm |-> kept, turn |-> turnCount,
                errs |-> evictErrs \cup {"insert"}]
          ELSE [status |-> "ok",
                stm |-> kept \cup {[id |-> id, session_id |-> s, turn_number |-> turnCount]},
                turn |-> turnCount, errs |-> evictErrs]

\* The count / find oldest / delete / insert sequence shared by
\* MemoryManager.addToSTM and saveConversationTurn.
AppendRows(stmT, s, id, f, victim) ==
  IF "count" \in f
  THEN [status |-> "throw", stm |-> stmT, turn |-> 0, errs |-> {"count"}]
  ELSE LET currentCount == CountRows(stmT, s)
           turnCount == NextTurnNumber(currentCount)
           atLimit == currentCount >= MAX_STM
           evictErrs == IF ~atLimit THEN {}
                        ELSE IF "oldest" \in f THEN {"oldest"}
                        ELSE IF "delete" \in f THEN {"delete"}
                        ELSE {}
           kept == IF atLimit /\ evictErrs = {} THEN stmT \ {victim} ELSE stmT
       IN IF "insert" \in f
          THEN [status |-> "throw", stm |-> kept, turn |-> turnCount,
                errs |-> evictErrs \cup {"insert"}]
          ELSE [status |-> "ok",
                stm |-> kept \cup {[id |-> id, session_id |-> s, turn_number |-> turnCount]},
                turn |-> turnCount, errs |-> evictErrs]

AppendFaults == SUBSET {"count", "oldest", "delete", "insert", "clear"}
ReadFaults == SUBSET {"cacheRead", "cacheReread", "ctxSTM", "ctxVIT"}

\* A call in flight: where it stands, its session, the count it read, the
\* row it found oldest and the rows the edge function fetched.
Idle == [pc |-> "idle", sid |-> << >>, count |-> 0, victim |-> NoVictim, fetched |-> {}]
Procs == {1, 2}

\* Rows a session may receive between two clears: one session runs long,
\* the others short.
AppendCap(s, long, other) == IF s = LongSession THEN long ELSE other

\* What the caller of the last completed operation saw: how it ended, the
\* store errors it met, the turn number it used, the text it returned, and
\* the cache row the session had when it started.
Done(op, s, st, errs, turn, value, rb, preRow) ==
  [op |-> op, sid |-> s, status |-> st, errs |-> errs, turn |-> turn,
   value |-> value, rebuild |-> rb, preRow |-> preRow]

\* No pure function has been called yet.
NoCall == [fn |-> "none", args |-> << >>, result |-> {}]

Init ==
  /\ stm = {}
  /\ serial = [s \in Sessions |-> 0]
  /\ vit = {}
  /\ semantic = {}
  /\ episodic = {}
  /\ call = NoCall
  /\ cache = [s \in Sessions |-> NoRow]
  /\ stmCache = [s \in Sessions |-> Undefined]
  /\ now = 0
  /\ last = Done("init", << >>, "ok", {}, 0, EmptyText, "none", NoRow)
  /\ procs = [p \in Procs |-> Idle]

\* MemoryManager.addToSTM as a function of the tables: how it ends, the
\* tables and the stmCache it leaves, the turn number it used, the store
\* errors it met and what became of the rebuild it may trigger.
AddToSTMResult(stmT, c, vitT, sc, s, id, f, rf, victim, t) ==
  LET r == AppendRows(stmT, s, id, f, victim)
      sc1 == [sc EXCEPT ![s] = Min(r.turn, MAX_STM)]
      m == MaybeTriggerPromptUpdate(c, r.stm, vitT, sc1, s, {}, rf, t)
  IN IF r.status = "ok"
     THEN [status |-> "ok", stm |-> r.stm, cache |-> m.cache, stmCache |-> m.stmCache,
           turn |-> r.turn, errs |-> r.errs, rebuild |-> m.rebuild]
     ELSE [status |-> "throw", stm |-> r.stm, cache |-> c, stmCache |-> sc,
           turn |-> r.turn, errs |-> r.errs, rebuild |-> "none"]

\* The hook asks for a rebuild only from the eleventh turn on.
SaveConversationTurnResultAbove(stmT, c, vitT, sc, s, id, f, rf, victim, t) ==
  LET r == AppendRows(stmT, s, id, f, victim)
      fire == r.turn > MAX_STM
  IN IF r.status = "ok"
     THEN [status |-> "ok", stm |-> r.stm,
           cache |-> IF fire THEN Rebuild(c, r.stm, vitT, s, rf, t) ELSE c,
           stmCache |-> sc, turn |-> r.turn, errs |-> r.errs,
           rebuild |-> IF ~fire THEN "none" ELSE IF RebuildOk(rf) THEN "ok" ELSE "failed"]
     ELSE [status |-> "throw", stm |-> r.stm, cache |-> c, stmCache |-> sc,
           turn |-> r.turn, errs |-> r.errs, rebuild |-> "none"]

\* saveConversationTurn of useConversationPersistence, enabled and with a
\* session id, as a function of the tables; it keeps no stmCache.
SaveConversationTurnResult(stmT, c, vitT, sc, s, id, f, rf, victim, t) ==
  LET r == AppendRows(stmT, s, id, f, victim)
      fire == r.turn >= MAX_STM
  IN IF r.status = "ok"
     THEN [status |-> "ok", stm |-> r.stm,
           cache |-> IF fire THEN Rebuild(c, r.stm, vitT, s, rf, t) ELSE c,
           stmCache |-> sc, turn |-> r.turn, errs |-> r.errs,
           rebuild |-> IF ~fire THEN "none" ELSE IF RebuildOk(rf) THEN "ok" ELSE "failed"]
     ELSE [status |-> "throw", stm |-> r.stm, cache |-> c, stmCache |-> sc,
           turn |-> r.turn, errs |-> r.errs, rebuild |-> "none"]

\* The error of the rebuild call is passed on to the caller of the append.
AddToSTMRethrow(s, f, rf, victim) ==
  /\ \E a \in {AddToSTMResult(stm, cache, vit, stmCache, s, serial[s] + 1, f, rf, victim, now)} :
        /\ f = a.errs
        /\ (a.status = "throw" \/ a.rebuild = "none") => rf = {}
        /\ stm' = a.stm
        /\ stmCache' = a.stmCache
        /\ cache' = a.cache
        /\ serial' = [serial EXCEPT ![s] = IF a.status = "ok" THEN @ + 1 ELSE @]
        /\ last' = Done("addToSTM", s, IF a.rebuild = "failed" THEN "throw" ELSE a.status,
                        a.errs, a.turn, EmptyText, a.rebuild, NoRow)
  /\ UNCHANGED <<vit, now, procs, semantic, episodic, call>>

\* MemoryManager.addToSTM(sessionId, user, agent)
AddToSTM(s, f, rf, victim) ==
  /\ \E a \in {AddToSTMResult(stm, cache, vit, stmCache, s, serial[s] + 1, f, rf, victim, now)} :
        /\ f = a.errs
        /\ (a.status = "throw" \/ a.rebuild = "none") => rf = {}
        /\ stm' = a.stm
        /\ stmCache' = a.stmCache
        /\ cache' = a.cache
        /\ serial' = [serial EXCEPT ![s] = IF a.status = "ok" THEN @ + 1 ELSE @]
        /\ last' = Done("addToSTM", s, a.status, a.errs, a.turn, EmptyText, a.rebuild, NoRow)
  /\ UNCHANGED <<vit, now, procs, semantic, episodic, call>>


\* useConversationPersistence.saveConversationTurn(userText, agentText)
SaveConversationTurn(s, f, rf, victim) ==
  /\ \E b \in {SaveConversationTurnResult(stm, cache, vit, stmCache, s, serial[s] + 1, f, rf,
                                          victim, now)} :
        /\ f = b.errs
        /\ (b.status = "throw" \/ b.rebuild = "none") => rf = {}
        /\ stm' = b.stm
        /\ cache' = b.cache
        /\ serial' = [serial EXCEPT ![s] = IF b.status = "ok" THEN @ + 1 ELSE @]
        /\ last' = Done("saveConversationTurn", s, b.status, b.errs, b.turn, EmptyText,
                        b.rebuild, NoRow)
  /\ UNCHANGED <<vit, stmCache, now, procs, semantic, episodic, call>>

\* The delete is not narrowed to the session: every session's rows go.
ClearSTMEverySession(s, failed) ==
  /\ IF failed
     THEN /\ UNCHANGED <<stm, stmCache, serial>>
          /\ last' = Done("clearSTM", s, "throw", {"clear"}, 0, EmptyText, "none", NoRow)
     ELSE /\ stm' = {}
          /\ stmCache' = [stmCache EXCEPT ![s] = Undefined]
          /\ serial' = [x \in Sessions |-> 0]
          /\ last' = Done("clearSTM", s, "ok", {}, 0, EmptyText, "none", NoRow)
  /\ UNCHANGED <<vit, cache, now, procs, semantic, episodic, call>>

\* MemoryManager.clearSTM(sessionId)
ClearSTM(s, failed) ==
  /\ IF failed
     THEN /\ UNCHANGED <<stm, stmCache>>
          /\ last' = Done("clearSTM", s, "throw", {"clear"}, 0, EmptyText, "none", NoRow)
     ELSE /\ stm' = stm \ SessionRows(stm, s)
          /\ stmCache' = [stmCache EXCEPT ![s] = Undefined]
          /\ last' = Done("clearSTM", s, "ok", {}, 0, EmptyText, "none", NoRow)
  /\ serial' = [serial EXCEPT ![s] = IF failed THEN @ ELSE 0]
  /\ UNCHANGED <<vit, cache, now, procs, semantic, episodic, call>>

\* useConversationPersistence.clearConversationHistory()
ClearConversationHistory(s, failed) ==
  /\ IF failed
     THEN /\ UNCHANGED stm
          /\ last' = Done("clearConversationHistory", s, "throw", {"clear"}, 0, EmptyText,
                          "none", NoRow)
     ELSE /\ stm' = stm \ SessionRows(stm, s)
          /\ last' = Done("clearConversationHistory", s, "ok", {}, 0, EmptyText, "none", NoRow)
  /\ serial' = [serial EXCEPT ![s] = IF failed THEN @ ELSE 0]
  /\ UNCHANGED <<vit, cache, stmCache, now, procs, semantic, episodic, call>>

\* MemoryManager.addVIT(userId, content, tags, priority)
AddVIT(u, p, f, rf) ==
  /\ Cardinality(vit) < MaxVIT
  /\ IF "vitInsert" \in f
     THEN /\ f = {"vitInsert"} /\ rf = {}
          /\ UNCHANGED <<vit, cache>>
          /\ last' = Done("addVIT", u, "throw", {"vitInsert"}, 0, EmptyText, "none", NoRow)
     ELSE LET row == [id |-> Cardinality(vit) + 1, user_id |-> u, priority |-> p,
                      last_updated |-> now]
              vit2 == vit \cup {row}
              \* .from('short_term_memory').eq('session_id', userId).limit(5)
              sessions == IF p >= HIGH_THRESHOLD /\ "vitSessions" \notin f
                          THEN Limit(SortTurnDesc(SessionRows(stm, u)), SESSION_LOOKBACK)
                          ELSE << >>
              fire == sessions # << >>
          IN /\ f = (IF p >= HIGH_THRESHOLD THEN f \cap {"vitSessions"} ELSE {})
             /\ ~fire => rf = {}
             /\ vit' = vit2
             /\ cache' = IF fire THEN Rebuild(cache, stm, vit2, u, rf, now) ELSE cache
             /\ last' = Done("addVIT", u, "ok",
                             IF p >= HIGH_THRESHOLD THEN f \cap {"vitSessions"} ELSE {},
                             0, EmptyText,
                             IF ~fire THEN "none" ELSE IF RebuildOk(rf) THEN "ok" ELSE "failed",
                             NoRow)
  /\ UNCHANGED <<stm, serial, stmCache, now, procs, semantic, episodic, call>>

\* triggerPromptUpdate of the memory UI and of useConversationPersistence:
\* invokes the edge function for the session, errors are logged only.
TriggerPromptUpdate(s, rf) ==
  /\ cache' = Rebuild(cache, stm, vit, s, rf, now)
  /\ last' = Done("triggerPromptUpdate", s, "ok", {}, 0, EmptyText,
                  IF RebuildOk(rf) THEN "ok" ELSE "failed", cache[s])
  /\ UNCHANGED <<stm, serial, vit, stmCache, now, procs, semantic, episodic, call>>

\* AgentClient.updateMemory / useMemoryManager.forcePromptUpdate
UpdateMemory(s, f, rf) ==
  /\ LET m == MaybeTriggerPromptUpdate(cache, stm, vit, stmCache, s, f, rf, now)
     IN /\ f = (IF stmCache[s] \in {Undefined, 0} THEN f ELSE {})
        /\ m.rebuild = "none" => rf = {}
        /\ cache' = m.cache
        /\ stmCache' = m.stmCache
        /\ last' = Done("updateMemory", s, "ok",
                        IF stmCache[s] \in {Undefined, 0} THEN f ELSE {},
                        0, EmptyText, m.rebuild, cache[s])
  /\ UNCHANGED <<stm, serial, vit, now, procs, semantic, episodic, call>>

\* getCachedPrompt reads a row and finds it older than the maximum age: the
\* one case in which a read invokes the edge function.
StaleHit(c, s, f, t) == "cacheRead" \notin f /\ c[s] # NoRow /\ IsStale(c[s], t)

\* The store calls of one getPrompt that were made and failed.
ReadErrs(c, s, u, f, t) ==
  LET readOk == "cacheRead" \notin f
      hit == readOk /\ c[s] # NoRow
  IN (f \cap {"cacheRead"})
     \cup (IF StaleHit(c, s, f, t) THEN f \cap {"cacheReread"} ELSE {})
     \cup (IF ~hit /\ u # NoUser THEN f \cap {"ctxSTM", "ctxVIT"} ELSE {})

\* getPrompt(sessionId, userId): PromptManager.generateFinalPrompt
GetPrompt(s, u, f, rf) ==
  /\ f = ReadErrs(cache, s, u, f, now)
  /\ ~StaleHit(cache, s, f, now) => rf = {}
  /\ \E g \in {GenerateFinalPrompt(cache, stm, vit, s, u, f, rf, now)} :
        /\ cache' = g.cache
        /\ last' = Done("getPrompt", s, "ok", f, 0, g.value, g.rebuild, cache[s])
  /\ UNCHANGED <<stm, serial, vit, stmCache, now, procs, semantic, episodic, call>>

\* Passage of time between operations.
Tick(d) ==
  /\ now + d <= MaxNow
  /\ now' = now + d
  /\ last' = Done("tick", << >>, "ok", {}, 0, EmptyText, "none", NoRow)
  /\ UNCHANGED <<stm, serial, vit, cache, stmCache, procs, semantic, episodic, call>>

\* The four entry points that write short_term_memory.
StmStep(faults, rfaults, long, other) ==
  \/ \E s \in Sessions :
       /\ serial[s] < AppendCap(s, long, other)
       /\ \E f \in faults, victim \in Victims(stm, s) :
            /\ f = AppendRows(stm, s, serial[s] + 1, f, victim).errs
            /\ \E rf \in rfaults : AddToSTM(s, f, rf, victim)
  \/ \E s \in Sessions :
       /\ serial[s] < AppendCap(s, long, other)
       /\ \E f \in faults, victim \in Victims(stm, s) :
            /\ f = AppendRows(stm, s, serial[s] + 1, f, victim).errs
            /\ \E rf \in rfaults : SaveConversationTurn(s, f, rf, victim)
  \/ \E s \in Sessions, failed \in {"clear" \in UNION faults} \cup {FALSE} : ClearSTM(s, failed)
  \/ \E s \in Sessions, failed \in {"clear" \in UNION faults} \cup {FALSE} :
       ClearConversationHistory(s, failed)

\* Reads, rebuild triggers, importance inserts and a few turns, one at a
\* time, each store call free to fail, with time passing in between.
Next ==
  \/ \E s \in Sessions :
       /\ serial[s] < AppendCap(s, MaxTurns, 0)
       /\ \E f \in AppendFaults, victim \in Victims(stm, s) :
            /\ f = AppendRows(stm, s, serial[s] + 1, f, victim).errs
            /\ \E rf \in RebuildFaults : AddToSTM(s, f, rf, victim)
  \/ \E u \in Users, p \in Priorities, f \in SUBSET {"vitInsert", "vitSessions"},
        rf \in RebuildFaults : AddVIT(u, p, f, rf)
  \/ \E s \in Sessions, rf \in InvocationFaults : TriggerPromptUpdate(s, rf)
  \/ \E s \in Sessions, u \in Users \cup {NoUser} :
       \E f \in ReadFaults :
         /\ f = ReadErrs(cache, s, u, f, now)
         /\ \E rf \in (IF StaleHit(cache, s, f, now) THEN RebuildFaults ELSE {{}}) :
              GetPrompt(s, u, f, rf)
  \/ \E d \in TickSteps : Tick(d)

Spec == Init /\ [][Next]_vars

\* Long runs of appends and clears, one at a time, store calls free to fail.
NextSTM == StmStep(AppendFaults, {{}, {"invoke"}}, MaxFaulty, 0)

SpecSTM == Init /\ [][NextSTM]_vars

\* Both entry points in turn on one session, the eviction and the
\* rebuild free to fail.
NextEquiv == StmStep({ {}, {"oldest"} }, { {}, {"invoke"} }, MaxFaulty, 0)

SpecEquiv == Init /\ [][NextEquiv]_vars

\* The same runs with every store call succeeding.
NextOK == StmStep({{}}, {{}}, MaxAppends, MaxOther)

SpecOK == Init /\ [][NextOK]_vars

\* AgentClient.addVIT: hands its arguments to MemoryManager.addVIT and
\* rethrows what it throws.
AgentAddVIT(u, p, f, rf) == AddVIT(u, p, f, rf)

\* memory UI, addVITEntry: inserts the row as entered and, for a priority
\* of 4 or more, invokes the edge function for the UI's own session; every
\* error ends in the UI's error banner.
AddVITEntry(s, u, p, f, rf) ==
  /\ Cardinality(vit) < MaxVIT
  /\ f \subseteq {"vitInsert"}
  /\ ("vitInsert" \in f \/ p < HIGH_THRESHOLD) => rf = {}
  /\ IF "vitInsert" \in f
     THEN /\ UNCHANGED <<vit, cache>>
          /\ last' = Done("addVITEntry", s, "ok", f, 0, EmptyText, "none", cache[s])
     ELSE LET row == [id |-> Cardinality(vit) + 1, user_id |-> u, priority |-> p,
                      last_updated |-> now]
              vit2 == vit \cup {row}
              fire == p >= HIGH_THRESHOLD
          IN /\ vit' = vit2
             /\ cache' = IF fire THEN Rebuild(cache, stm, vit2, s, rf, now) ELSE cache
             /\ last' = Done("addVITEntry", s, "ok", f, 0, EmptyText,
                             IF ~fire THEN "none" ELSE IF RebuildOk(rf) THEN "ok" ELSE "failed",
                             cache[s])
  /\ UNCHANGED <<stm, serial, stmCache, now, procs, semantic, episodic, call>>

\* memory UI, updateVITEntry: .update(updates).eq('id', id) with the edited
\* entry as payload, then the same trigger as addVITEntry.
UpdateVITEntry(s, row, p, f, rf) ==
  /\ row \in vit
  /\ f \subseteq {"vitUpdate"}
  /\ ("vitUpdate" \in f \/ p < HIGH_THRESHOLD) => rf = {}
  /\ IF "vitUpdate" \in f
     THEN /\ UNCHANGED <<vit, cache>>
          /\ last' = Done("updateVITEntry", s, "ok", f, 0, EmptyText, "none", cache[s])
     ELSE LET vit2 == (vit \ {row}) \cup {[row EXCEPT !.priority = p]}
              fire == p >= HIGH_THRESHOLD
          IN /\ vit' = vit2
             /\ cache' = IF fire THEN Rebuild(cache, stm, vit2, s, rf, now) ELSE cache
             /\ last' = Done("updateVITEntry", s, "ok", f, 0, EmptyText,
                             IF ~fire THEN "none" ELSE IF RebuildOk(rf) THEN "ok" ELSE "failed",
                             cache[s])
  /\ UNCHANGED <<stm, serial, stmCache, now, procs, semantic, episodic, call>>

\* useMemoryManager.forcePromptUpdate: the same call as updateMemory
ForcePromptUpdate(s, f, rf) ==
  /\ LET m == MaybeTriggerPromptUpdate(cache, stm, vit, stmCache, s, f, rf, now)
     IN /\ f = (IF stmCache[s] \in {Undefined, 0} THEN f ELSE {})
        /\ m.rebuild = "none" => rf = {}
        /\ cache' = m.cache
        /\ stmCache' = m.stmCache
        /\ last' = Done("forcePromptUpdate", s, "ok",
                        IF stmCache[s] \in {Undefined, 0} THEN f ELSE {},
                        0, EmptyText, m.rebuild, cache[s])
  /\ UNCHANGED <<stm, serial, vit, now, procs, semantic, episodic, call>>

\* The trigger policy: importance inserts and edits through every entry
\* point, manual rebuild requests and direct invocations of the edge
\* function, on sessions that hold a few turns.
NextTrig ==
  \/ \E s \in Sessions :
       /\ serial[s] < MaxTrigTurns
       /\ AddToSTM(s, {}, {}, NoVictim)
  \/ \E u \in Users, p \in ApiPriorities, f \in SUBSET {"vitInsert", "vitSessions"},
        rf \in RebuildFaults : AddVIT(u, p, f, rf)
  \/ \E u \in Users, p \in ApiPriorities, f \in SUBSET {"vitInsert", "vitSessions"},
        rf \in RebuildFaults : AgentAddVIT(u, p, f, rf)
  \/ \E s \in Sessions, u \in Users, p \in UiPriorities, f \in SUBSET {"vitInsert"},
        rf \in RebuildFaults : AddVITEntry(s, u, p, f, rf)
  \/ \E s \in Sessions, row \in vit, p \in UiPriorities, f \in SUBSET {"vitUpdate"},
        rf \in RebuildFaults : UpdateVITEntry(s, row, p, f, rf)
  \/ \E s \in Sessions, f \in SUBSET {"triggerCount"}, rf \in RebuildFaults :
       UpdateMemory(s, f, rf)
  \/ \E s \in Sessions, f \in SUBSET {"triggerCount"}, rf \in RebuildFaults :
       ForcePromptUpdate(s, f, rf)
  \/ \E s \in Sessions, rf \in InvocationFaults : TriggerPromptUpdate(s, rf)

SpecTrig == Init /\ [][NextTrig]_vars

\* ------------------------------------------------------------ pure helpers
\* Texts are strings; positions count from 1.

\* The lower-case letter of each upper-case letter.
LowerOf ==
  "A" :> "a" @@ "B" :> "b" @@ "C" :> "c" @@ "D" :> "d" @@ "E" :> "e" @@ "F" :> "f" @@ "G" :> "g" @@
  "H" :> "h" @@ "I" :> "i" @@ "J" :> "j" @@ "K" :> "k" @@ "L" :> "l" @@ "M" :> "m" @@ "N" :> "n" @@
  "O" :> "o" @@ "P" :> "p" @@ "Q" :> "q" @@ "R" :> "r" @@ "S" :> "s" @@ "T" :> "t" @@ "U" :> "u" @@
  "V" :> "v" @@ "W" :> "w" @@ "X" :> "x" @@ "Y" :> "y" @@ "Z" :> "z"

\* One character of String.prototype.toLowerCase
LowerChar(c) == IF c \in DOMAIN LowerOf THEN LowerOf[c] ELSE c

\* text.toLowerCase()
RECURSIVE ToLowerCase(_)
ToLowerCase(t) ==
  IF Len(t) = 0 THEN ""
  ELSE LowerChar(SubSeq(t, 1, 1)) \o ToLowerCase(SubSeq(t, 2, Len(t)))

\* text.includes(keyword)
Includes(t, k) ==
  \E i \in 1..(Len(t) - Len(k) + 1) : SubSeq(t, i, i + Len(k) - 1) = k

HighPriorityKeywords ==
  {"remember", "important", "never forget", "always", "preference",
   "favorite", "hate", "love", "birthday", "anniversary", "family",
   "work", "job", "address", "phone", "email", "password", "secret"}

MediumPriorityKeywords ==
  {"like", "dislike", "usually", "often", "sometimes", "hobby",
   "interest", "goal", "plan", "schedule", "meeting", "appointment"}

\* The six topic checks in the order the code makes them: the tag and the
\* two words either of which earns it.
TopicChecks ==
  << <<"work", "work", "job">>, <<"family", "family", "parent">>,
     <<"hobby", "hobby", "interest">>, <<"preference", "preference", "like">>,
     <<"schedule", "schedule", "time">>, <<"goal", "goal", "plan">> >>

\* The tags pushed by the first n topic checks on the lower-cased text.
RECURSIVE TopicTags(_, _)
TopicTags(t, n) ==
  IF n = 0 THEN << >>
  ELSE TopicTags(t, n - 1) \o
       (IF Includes(t, TopicChecks[n][2]) \/ Includes(t, TopicChecks[n][3])
        THEN <<TopicChecks[n][1]>> ELSE << >>)

\* `${userText} ${agentText}`.toLowerCase()
CombinedText(userText, agentText) == ToLowerCase(userText \o " " \o agentText)

\* Only the user's text is searched for keywords.
ExtractVITFromUserText(userText, agentText) ==
  LET combinedText == ToLowerCase(userText)
      hasHighPriority == \E k \in HighPriorityKeywords : Includes(combinedText, k)
      hasMediumPriority == \E k \in MediumPriorityKeywords : Includes(combinedText, k)
      tags == TopicTags(combinedText, Len(TopicChecks))
  IN IF ~hasHighPriority /\ ~hasMediumPriority THEN {}
     ELSE {[content |-> <<userText, agentText>>,
            tags |-> IF Len(tags) = 0 THEN <<"general">> ELSE tags,
            priority |-> IF hasHighPriority THEN 5 ELSE 3]}

\* "general" is pushed first, before the topic checks.
ExtractVITGeneralFirst(userText, agentText) ==
  LET combinedText == CombinedText(userText, agentText)
      hasHighPriority == \E k \in HighPriorityKeywords : Includes(combinedText, k)
      hasMediumPriority == \E k \in MediumPriorityKeywords : Includes(combinedText, k)
      tags == TopicTags(combinedText, Len(TopicChecks))
  IN IF ~hasHighPriority /\ ~hasMediumPriority THEN {}
     ELSE {[content |-> <<userText, agentText>>,
            tags |-> <<"general">> \o tags,
            priority |-> IF hasHighPriority THEN 5 ELSE 3]}

\* extractVITFromConversation(userText, agentText): the empty set for null,
\* else the one record returned.
ExtractVITFromConversation(userText, agentText) ==
  LET combinedText == CombinedText(userText, agentText)
      hasHighPriority == \E k \in HighPriorityKeywords : Includes(combinedText, k)
      hasMediumPriority == \E k \in MediumPriorityKeywords : Includes(combinedText, k)
      tags == TopicTags(combinedText, Len(TopicChecks))
  IN IF ~hasHighPriority /\ ~hasMediumPriority THEN {}
     ELSE {[content |-> <<userText, agentText>>,
            tags |-> IF Len(tags) = 0 THEN <<"general">> ELSE tags,
            priority |-> IF hasHighPriority THEN 5 ELSE 3]}

Max(a, b) == IF a >= b THEN a ELSE b

\* Math.floor on a whole number
Floor(p) == p

\* The two limits swapped: Math.min(1, Math.max(5, priority))
ValidateVITPrioritySwapped(priority) == Min(1, Max(5, Floor(priority)))

\* validateVITPriority(priority)
ValidateVITPriority(priority) == Max(1, Min(5, Floor(priority)))

\* What users type and what the model answers.
UserTexts ==
  {"", "hello", "My PASSWORD is x", "I dislike rain", "sometimes", "homeWORK",
   "I like my job", "never", "parent", "What time is it", "plan for FAMILY",
   "Always LOVE a hobby"}
AgentTexts ==
  {"", "ok", "forget it", "Noted, I will REMEMBER", "sounds like a goal",
   "Interesting", "Your schedule is free", "at home"}

\* A caller applies extractVITFromConversation to two texts.
ExtractVIT(userText, agentText) ==
  /\ call' = [fn |-> "extractVITFromConversation", args |-> <<userText, agentText>>,
              result |-> ExtractVITFromConversation(userText, agentText)]
  /\ UNCHANGED <<stm, serial, vit, semantic, episodic, cache, stmCache, now, last, procs>>

\* A caller applies validateVITPriority to a whole number.
ValidatePriority(p) ==
  /\ call' = [fn |-> "validateVITPriority", args |-> <<p>>,
              result |-> ValidateVITPriority(p)]
  /\ UNCHANGED <<stm, serial, vit, semantic, episodic, cache, stmCache, now, last, procs>>

NextPure ==
  \/ \E userText \in UserTexts, agentText \in AgentTexts : ExtractVIT(userText, agentText)
  \/ \E p \in -MaxPriorityArg..MaxPriorityArg : ValidatePriority(p)

SpecPure == Init /\ [][NextPure]_vars

\* ------------------------------------------------------------ sanitizeText

SANITIZE_LIMIT == 2000

CharAt(t, i) == SubSeq(t, i, i)

\* The characters that trim() strips and that \s matches, as they occur
\* here: space, tab and line feed.
IsSpace(t, i) == CharAt(t, i) \in {" ", "\t", "\n"}

\* text.trim()
Trim(t) ==
  IF \A i \in 1..Len(t) : IsSpace(t, i) THEN ""
  ELSE LET first == CHOOSE i \in 1..Len(t) :
                      ~IsSpace(t, i) /\ \A j \in 1..(i - 1) : IsSpace(t, j)
           final == CHOOSE i \in 1..Len(t) :
                      ~IsSpace(t, i) /\ \A j \in (i + 1)..Len(t) : IsSpace(t, j)
       IN SubSeq(t, first, final)

\* .replace(/\s+/g, ' ') on the characters lo..hi of t: a character that
\* is no whitespace stays, the first character of a run of whitespace
\* becomes a space and the rest of the run goes.
RECURSIVE ReplaceRuns(_, _, _)
ReplaceRuns(t, lo, hi) ==
  IF lo > hi THEN ""
  ELSE IF lo = hi
  THEN IF ~IsSpace(t, lo) THEN CharAt(t, lo)
       ELSE IF lo > 1 /\ IsSpace(t, lo - 1) THEN "" ELSE " "
  ELSE LET mid == (lo + hi) \div 2
       IN ReplaceRuns(t, lo, mid) \o ReplaceRuns(t, mid + 1, hi)

\* sanitizeText: trim, normalize whitespace, limit the length with
\* .substring(0, 2000)
SanitizeText(text) ==
  LET trimmed == Trim(text)
      normalized == ReplaceRuns(trimmed, 1, Len(trimmed))
  IN SubSeq(normalized, 1, Min(SANITIZE_LIMIT, Len(normalized)))

\* n times the character c
RECURSIVE Repeat(_, _)
Repeat(c, n) ==
  IF n = 0 THEN ""
  ELSE LET half == Repeat(c, n \div 2)
       IN half \o half \o (IF n % 2 = 1 THEN c ELSE "")

\* User inputs: a few words with whitespace before, between and after,
\* and texts about as long as the limit, a word, a space at position g
\* and a second word up to position n.
UserInputs ==
  LET Pieces == {"", " ", "  ", "\t", "\n ", "a", "b c"}
  IN {p \o q \o r : p, q, r \in Pieces}
     \cup {Repeat("a", g - 1) \o " " \o Repeat("b", IF n > g THEN n - g ELSE 0) :
             n \in (SANITIZE_LIMIT - 1)..MaxTextLen,
             g \in (SANITIZE_LIMIT - 2)..(SANITIZE_LIMIT + 1)}

\* AgentClient.chat sanitizes the user's input.
SanitizeInput(userInput) ==
  /\ call' = [fn |-> "sanitizeText", args |-> <<userInput>>,
              result |-> {SanitizeText(userInput)}]
  /\ UNCHANGED <<stm, serial, vit, semantic, episodic, cache, stmCache, now, last, procs>>

NextSanitize == \E userInput \in UserInputs : SanitizeInput(userInput)

SpecSanitize == Init /\ [][NextSanitize]_vars

\* Appends and clears through both entry points, every store call
\* succeeding, and manual trigger checks in between.
NextMirror ==
  \/ StmStep({{}}, {{}}, MaxAppends, 0)
  \/ \E s \in Sessions : UpdateMemory(s, {}, {})

SpecMirror == Init /\ [][NextMirror]_vars

\* ------------------------------------------------------------ reading turns

\* The limits callers pass: buildMemoryContext asks for 5, the default is 10.
ReadLimits == {1, 2, FALLBACK_TURNS, MAX_STM}

\* A caller of memoryManager.getSTMEntries(sessionId, limit)
ReadSTMEntries(s, limit, failed) ==
  /\ call' = [fn |-> "getSTMEntries", args |-> <<s, limit, failed>>,
              result |-> GetSTMEntries(stm, s, limit, failed)]
  /\ last' = Done("getSTMEntries", s, "ok", IF failed THEN {"read"} ELSE {}, 0, EmptyText,
                  "none", NoRow)
  /\ UNCHANGED <<stm, serial, vit, semantic, episodic, cache, stmCache, now, procs>>

\* Turns are appended to a session and read back, the read free to fail.
NextRead ==
  \/ /\ serial[LongSession] < MaxReadTurns
     /\ \E victim \in Victims(stm, LongSession) : AddToSTM(LongSession, {}, {}, victim)
  \/ \E s \in Sessions, limit \in ReadLimits, failed \in BOOLEAN :
       ReadSTMEntries(s, limit, failed)

SpecRead == Init /\ [][NextRead]_vars

\* ------------------------------------------------- semantic and episodic
\* semantic_memory rows are written by the memory UI; episodic_memory rows
\* are only read by this code, so a run starts with the summaries the
\* store already holds.

SemanticKeys == {"name"}
SemanticValues == {"Ann", "Bob"}

\* The store adds a semantic row unless one with the same user_id and key
\* exists, which its one-row-per-(user_id, key) rule refuses.
SemanticInsert(m, row) ==
  IF \E r \in m : r.user_id = row.user_id /\ r.key = row.key
  THEN [error |-> TRUE, rows |-> m]
  ELSE [error |-> FALSE, rows |-> m \cup {row}]

\* .from('semantic_memory').upsert({user_id, key, value}): no onConflict
\* is given, so a row is replaced only when the payload carries its primary
\* key id; the payload carries none, the store generates a new id and the
\* upsert is an insert.
SemanticUpsert(m, u, key, value, id, t) ==
  SemanticInsert(m, [id |-> id, user_id |-> u, key |-> key, value |-> value,
                     updated_at |-> RowTimestamp(t)])

\* memory UI, addSemanticEntry: every error ends in the UI's error banner.
AddSemanticEntry(u, key, value, f) ==
  /\ LET r == SemanticUpsert(semantic, u, key, value, Cardinality(semantic) + 1, now)
         failed == "semUpsert" \in f \/ r.error
     IN /\ semantic' = IF failed THEN semantic ELSE r.rows
        /\ last' = Done("addSemanticEntry", u, IF failed THEN "error" ELSE "ok",
                        IF "semUpsert" \in f THEN {"semUpsert"}
                        ELSE IF r.error THEN {"duplicate"} ELSE {},
                        0, EmptyText, "none", NoRow)
        /\ call' = [fn |-> "addSemanticEntry", args |-> <<key, value>>, result |-> {}]
  /\ UNCHANGED <<stm, serial, vit, episodic, cache, stmCache, now, procs>>

\* A request {sessionId} to the updateSystemPrompt endpoint, answered with
\* 200 or with 500; rf is the set of its store calls that fail.
UpdateSystemPrompt(s, rf) ==
  /\ cache' = Rebuild(cache, stm, vit, s, rf, now)
  /\ last' = Done("updateSystemPrompt", s, IF RebuildOk(rf) THEN "200" ELSE "500", rf, 0,
                  EmptyText, IF RebuildOk(rf) THEN "ok" ELSE "failed", cache[s])
  /\ UNCHANGED <<stm, serial, vit, semantic, episodic, stmCache, now, procs, call>>

\* Summaries the store may hold when a run starts.
EpisodicSeeds ==
  { {},
    { [id |-> 1, session_id |-> LongSession, importance |-> 2, created_at |-> 0],
      [id |-> 2, session_id |-> LongSession, importance |-> 5, created_at |-> 0] } }

\* Importance entries the store may hold when a run starts.
VitSeeds ==
  { {}, { [id |-> 1, user_id |-> SplitFirst(LongSession), priority |-> 5, last_updated |-> 0] } }

\* Outcomes of an invocation of the edge function told apart here.
MemFaults == { {}, {"rbEpisodic"}, {"rbUpsert"} }

InitMem ==
  /\ stm = {}
  /\ serial = [s \in Sessions |-> 0]
  /\ vit \in VitSeeds
  /\ semantic = {}
  /\ episodic \in EpisodicSeeds
  /\ call = NoCall
  /\ cache = [s \in Sessions |-> NoRow]
  /\ stmCache = [s \in Sessions |-> Undefined]
  /\ now = 0
  /\ last = Done("init", << >>, "ok", {}, 0, EmptyText, "none", NoRow)
  /\ procs = [p \in Procs |-> Idle]

\* All four memory kinds in use: turns and semantic entries are added,
\* sessions are cleared and the prompt of one session is rebuilt, store
\* calls free to fail.
NextMem ==
  \/ \E s \in Sessions :
       /\ serial[s] < MaxMemTurns
       /\ AddToSTM(s, {}, {}, NoVictim)
  \/ \E u \in Users, key \in SemanticKeys, value \in SemanticValues,
        f \in SUBSET {"semUpsert"} : AddSemanticEntry(u, key, value, f)
  \/ \E rf \in MemFaults : UpdateSystemPrompt(LongSession, rf)
  \/ \E s \in Sessions, failed \in BOOLEAN : ClearSTM(s, failed)
  \/ \E s \in Sessions, failed \in BOOLEAN : ClearConversationHistory(s, failed)

SpecMem == InitMem /\ [][NextMem]_vars

\* ---------------------------------------------------------------- a full Importance table

\* A user whose rows share the vit_memory table with the session's user.
OtherUser == <<"u2">>

\* Ways the table may have been filled: "mixed" has every priority from 1
\* to 5 in turn, "high" has nearly all rows at 3 or more.
VitShapes == {"mixed", "high"}

\* The n rows of a table of the given shape, in insertion order: owner,
\* priority and time of the last update of the i-th row.
VitFill(n, shape) ==
  { [id |-> i,
     user_id |-> IF i % 11 = 0 THEN OtherUser ELSE SplitFirst(LongSession),
     priority |-> IF shape = "mixed" THEN 1 + (i % 5)
                  ELSE IF i % 12 = 0 THEN 2 ELSE 3 + (i % 3),
     last_updated |-> IF shape = "mixed" THEN (i * 2) % 3 ELSE i % 2] : i \in 1..n }

InitVit ==
  /\ stm = {}
  /\ serial = [s \in Sessions |-> 0]
  /\ \E n \in 0..MaxVitRows, shape \in VitShapes : vit = VitFill(n, shape)
  /\ semantic = {}
  /\ episodic = {}
  /\ call = NoCall
  /\ cache = [s \in Sessions |-> NoRow]
  /\ stmCache = [s \in Sessions |-> Undefined]
  /\ now = 2
  /\ last = Done("init", << >>, "ok", {}, 0, EmptyText, "none", NoRow)
  /\ procs = [p \in Procs |-> Idle]

\* The prompts of the user's sessions are rebuilt over a table of any size
\* up to MaxVitRows.
NextVit == \E s \in Sessions, rf \in MemFaults : UpdateSystemPrompt(s, rf)

SpecVit == InitVit /\ [][NextVit]_vars

\* A session that has no cache row yet: turns are added, too few to
\* trigger a rebuild, and the prompt is read for the session's user, the
\* reads free to fail.
NextFallback ==
  \/ /\ serial[LongSession] < MaxFallbackTurns
     /\ AddToSTM(LongSession, {}, {}, NoVictim)
  \/ \E s \in Sessions, u \in Users, f \in ReadFaults :
       /\ f = ReadErrs(cache, s, u, f, now)
       /\ GetPrompt(s, u, f, {})

InitFallback ==
  /\ stm = {}
  /\ serial = [s \in Sessions |-> 0]
  /\ \E n \in (0..MaxFallbackVit) \cup {MaxVitRows}, shape \in VitShapes :
       vit = VitFill(n, shape)
  /\ semantic = {}
  /\ episodic = {}
  /\ call = NoCall
  /\ cache = [s \in Sessions |-> NoRow]
  /\ stmCache = [s \in Sessions |-> Undefined]
  /\ now = 2
  /\ last = Done("init", << >>, "ok", {}, 0, EmptyText, "none", NoRow)
  /\ procs = [p \in Procs |-> Idle]

SpecFallback == InitFallback /\ [][NextFallback]_vars

\* ---------------------------------------------------------------- whose entries

\* generateSessionId: `${userId}_${timestamp}_${random}`, the stamp being
\* the timestamp and the random part.
GenerateSessionId(u, stamp) == u \o <<stamp>>

\* The user a session id was generated for.
OwnerOf(s) == SubSeq(s, 1, Len(s) - 1)

\* User ids as the application passes them: 'user' and 'user_demo', which
\* agree up to the first '_'.
OwnerUsers == { <<"user">>, <<"user", "demo">> }

OwnerSessions == { GenerateSessionId(u, "t1") : u \in OwnerUsers }

InitOwner ==
  /\ stm = {}
  /\ serial = [s \in OwnerSessions |-> 0]
  /\ vit = {}
  /\ semantic = {}
  /\ episodic = {}
  /\ call = NoCall
  /\ cache = [s \in OwnerSessions |-> NoRow]
  /\ stmCache = [s \in OwnerSessions |-> Undefined]
  /\ now = 0
  /\ last = Done("init", << >>, "ok", {}, 0, EmptyText, "none", NoRow)
  /\ procs = [p \in Procs |-> Idle]

\* Two users store Importance and semantic entries and the prompts of
\* their sessions are rebuilt.
NextOwner ==
  \/ \E u \in OwnerUsers, p \in Priorities : AddVIT(u, p, {}, {})
  \/ \E u \in OwnerUsers, key \in SemanticKeys, value \in SemanticValues :
       AddSemanticEntry(u, key, value, {})
  \/ \E s \in OwnerSessions, rf \in MemFaults : UpdateSystemPrompt(s, rf)

SpecOwner == InitOwner /\ [][NextOwner]_vars

\* ---------------------------------------------------------------- the agent

\* MemoryManager.addVIT as a function of the tables: how it ends, the
\* tables it leaves, the store errors it met and whether it invoked the
\* edge function.
AddVITRows(vitT, c, stmT, u, p, f, rf, t) ==
  IF "vitInsert" \in f
  THEN [status |-> "throw", vit |-> vitT, cache |-> c, errs |-> {"vitInsert"},
        rebuild |-> "none"]
  ELSE LET row == [id |-> Cardinality(vitT) + 1, user_id |-> u, priority |-> p,
                   last_updated |-> t]
           vit2 == vitT \cup {row}
           sessions == IF p >= HIGH_THRESHOLD /\ "vitSessions" \notin f
                       THEN Limit(SortTurnDesc(SessionRows(stmT, u)), SESSION_LOOKBACK)
                       ELSE << >>
           fire == sessions # << >>
       IN [status |-> "ok", vit |-> vit2,
           cache |-> IF fire THEN Rebuild(c, stmT, vit2, u, rf, t) ELSE c,
           errs |-> IF p >= HIGH_THRESHOLD THEN f \cap {"vitSessions"} ELSE {},
           rebuild |-> IF ~fire THEN "none" ELSE IF RebuildOk(rf) THEN "ok" ELSE "failed"]

\* The catch block passes the error of addVIT on to chat.
AutoExtractVITRethrow(vitT, c, stmT, u, userText, agentText, f, rf, t) ==
  LET vitData == ExtractVITFromConversation(userText, agentText)
  IN IF vitData = {}
     THEN [status |-> "ok", vit |-> vitT, cache |-> c, errs |-> {}, rebuild |-> "none"]
     ELSE LET d == CHOOSE d \in vitData : TRUE
          IN AddVITRows(vitT, c, stmT, u, d.priority, f, rf, t)

\* AgentClient.autoExtractVIT: classifies the turn and stores a result;
\* an error of addVIT is logged and not thrown.
AutoExtractVIT(vitT, c, stmT, u, userText, agentText, f, rf, t) ==
  LET vitData == ExtractVITFromConversation(userText, agentText)
  IN IF vitData = {}
     THEN [status |-> "ok", vit |-> vitT, cache |-> c, errs |-> {}, rebuild |-> "none"]
     ELSE LET d == CHOOSE d \in vitData : TRUE
              a == AddVITRows(vitT, c, stmT, u, d.priority, f, rf, t)
          IN [a EXCEPT !.status = "ok"]

\* The store and API calls of one chat that were made and failed: the
\* LLM call, then the calls of addToSTM, then the insert of addVIT.
ChatErrs(stmT, s, id, userText, agentText, f, victim) ==
  IF "llm" \in f THEN {"llm"}
  ELSE LET r == AppendRows(stmT, s, id, f, victim)
       IN IF r.status = "throw" THEN r.errs
          ELSE IF "vitInsert" \notin f THEN r.errs
          ELSE IF ExtractVITFromConversation(userText, agentText) = {} THEN r.errs
          ELSE r.errs \cup {"vitInsert"}

\* Outcomes of one chat that differ in effect: the first call that fails
\* ends the chat, except the insert of addVIT.
ChatFaults == { {}, {"llm"}, {"count"}, {"insert"}, {"vitInsert"} }

\* The texts of the turns of the conversations examined: one without a
\* keyword, one with a high-priority and one with a medium-priority one.
ChatTexts == {"hello", "My PASSWORD is x", "I dislike rain"}

\* The turn is stored before the LLM is called.
ChatStoresBeforeLLM(s, u, userText, agentText, f, rf, victim) ==
  /\ f = ChatErrs(stm, s, serial[s] + 1, userText, agentText, f, victim)
  /\ LET g == GenerateFinalPrompt(cache, stm, vit, s, u, {}, rf, now)
         r == AppendRows(stm, s, serial[s] + 1, f, victim)
         sc == [stmCache EXCEPT ![s] = Min(r.turn, MAX_STM)]
         m == MaybeTriggerPromptUpdate(g.cache, r.stm, vit, sc, s, {}, rf, now)
         a == AutoExtractVIT(vit, m.cache, r.stm, u, userText, agentText, f, rf, now)
     IN IF "llm" \in f
        THEN /\ cache' = g.cache
             /\ stm' = r.stm
             /\ last' = Done("chat", s, "throw", f, 0, g.value, g.rebuild, cache[s])
             /\ call' = [fn |-> "chat", args |-> <<userText, agentText>>, result |-> {}]
             /\ UNCHANGED <<serial, stmCache, vit>>
        ELSE IF r.status = "throw"
        THEN /\ stm' = r.stm
             /\ cache' = g.cache
             /\ last' = Done("chat", s, "throw", f, r.turn, g.value, g.rebuild, cache[s])
             /\ call' = [fn |-> "chat", args |-> <<userText, agentText>>, result |-> {}]
             /\ UNCHANGED <<serial, stmCache, vit>>
        ELSE /\ stm' = r.stm
             /\ serial' = [serial EXCEPT ![s] = @ + 1]
             /\ stmCache' = m.stmCache
             /\ vit' = a.vit
             /\ cache' = a.cache
             /\ last' = Done("chat", s, a.status, f, r.turn, g.value,
                             IF m.rebuild # "none" THEN m.rebuild ELSE g.rebuild, cache[s])
             /\ call' = [fn |-> "chat", args |-> <<userText, agentText>>,
                         result |-> IF a.status = "ok" THEN {agentText} ELSE {}]
  /\ UNCHANGED <<semantic, episodic, now, procs>>

\* AgentClient.chat(userInput, sessionId, userId) with the default
\* configuration (enableMemory, autoExtractVIT); userText is the sanitized
\* input and agentText the content the LLM answers with.
Chat(s, u, userText, agentText, f, rf, victim) ==
  /\ f = ChatErrs(stm, s, serial[s] + 1, userText, agentText, f, victim)
  /\ LET g == GenerateFinalPrompt(cache, stm, vit, s, u, {}, rf, now)
         r == AppendRows(stm, s, serial[s] + 1, f, victim)
         sc == [stmCache EXCEPT ![s] = Min(r.turn, MAX_STM)]
         m == MaybeTriggerPromptUpdate(g.cache, r.stm, vit, sc, s, {}, rf, now)
         a == AutoExtractVIT(vit, m.cache, r.stm, u, userText, agentText, f, rf, now)
     IN IF "llm" \in f
        THEN /\ cache' = g.cache
             /\ last' = Done("chat", s, "throw", f, 0, g.value, g.rebuild, cache[s])
             /\ call' = [fn |-> "chat", args |-> <<userText, agentText>>, result |-> {}]
             /\ UNCHANGED <<stm, serial, stmCache, vit>>
        ELSE IF r.status = "throw"
        THEN /\ stm' = r.stm
             /\ cache' = g.cache
             /\ last' = Done("chat", s, "throw", f, r.turn, g.value, g.rebuild, cache[s])
             /\ call' = [fn |-> "chat", args |-> <<userText, agentText>>, result |-> {}]
             /\ UNCHANGED <<serial, stmCache, vit>>
        ELSE /\ stm' = r.stm
             /\ serial' = [serial EXCEPT ![s] = @ + 1]
             /\ stmCache' = m.stmCache
             /\ vit' = a.vit
             /\ cache' = a.cache
             /\ last' = Done("chat", s, a.status, f, r.turn, g.value,
                             IF m.rebuild # "none" THEN m.rebuild ELSE g.rebuild, cache[s])
             /\ call' = [fn |-> "chat", args |-> <<userText, agentText>>,
                         result |-> IF a.status = "ok" THEN {agentText} ELSE {}]
  /\ UNCHANGED <<semantic, episodic, now, procs>>

\* Conversations of a few turns, the LLM call and every store call free to
\* fail; so short a conversation invokes the edge function nowhere.
NextChat ==
  \E s \in Sessions :
    /\ serial[s] < AppendCap(s, MaxChatTurns, MaxOther)
    /\ \E userText \in ChatTexts, f \in ChatFaults :
         Chat(s, SplitFirst(s), userText, "ok", f, {}, NoVictim)

SpecChat == Init /\ [][NextChat]_vars

\* Turns of one session whose cache row has been built and may have gone
\* stale by the time of a turn; the LLM call and the rebuild a stale row
\* causes are free to fail.
NextTurn ==
  \/ \E userText \in ChatTexts, f \in { {}, {"llm"} }, rf \in { {}, {"invoke"} } :
       /\ serial[LongSession] < MaxTurnChats
       /\ ~StaleHit(cache, LongSession, {}, now) => rf = {}
       /\ Chat(LongSession, SplitFirst(LongSession), userText, "ok", f, rf, NoVictim)
  \/ \E rf \in { {}, {"rbUpsert"} } : UpdateSystemPrompt(LongSession, rf)
  \/ \E d \in TickSteps : Tick(d)

SpecTurn == Init /\ [][NextTurn]_vars

\* --------------------------------------------------- calls in flight at once
\* MemoryBatch.execute starts its operations together (Promise.all), and
\* several clients share one store: a call runs up to its next store call,
\* then any other call may run.  Every store call succeeds here.

\* addToSTM, first store call: count the session's rows
ConcCount(p, s) ==
  /\ procs[p].pc = "idle"
  /\ serial[s] < Warm + MaxConc
  /\ LET currentCount == CountRows(stm, s)
     IN procs' = [procs EXCEPT ![p] =
          [pc |-> IF currentCount >= MAX_STM THEN "oldest" ELSE "insert",
           sid |-> s, count |-> currentCount, victim |-> NoVictim, fetched |-> {}]]
  /\ UNCHANGED <<stm, serial, vit, cache, stmCache, now, last, semantic, episodic, call>>

\* addToSTM, second store call: find the oldest row (.limit(1).single())
ConcOldest(p, victim) ==
  /\ procs[p].pc = "oldest"
  /\ IF SessionRows(stm, procs[p].sid) = {}
     THEN victim = NoVictim
     ELSE victim \in OldestRows(stm, procs[p].sid)
  /\ procs' = [procs EXCEPT ![p].pc = IF victim = NoVictim THEN "insert" ELSE "delete",
                            ![p].victim = victim]
  /\ UNCHANGED <<stm, serial, vit, cache, stmCache, now, last, semantic, episodic, call>>

\* addToSTM, third store call: delete the row found (.delete().eq('id', id))
ConcDelete(p) ==
  /\ procs[p].pc = "delete"
  /\ stm' = stm \ {procs[p].victim}
  /\ procs' = [procs EXCEPT ![p].pc = "insert"]
  /\ UNCHANGED <<serial, vit, cache, stmCache, now, last, semantic, episodic, call>>

\* addToSTM, fourth store call: insert the new row; then the stmCache
\* update and maybeTriggerPromptUpdate up to the edge function call
ConcInsert(p) ==
  /\ procs[p].pc = "insert"
  /\ LET s == procs[p].sid
         turnCount == NextTurnNumber(procs[p].count)
         cached == Min(turnCount, MAX_STM)
     IN /\ stm' = stm \cup {[id |-> serial[s] + 1, session_id |-> s, turn_number |-> turnCount]}
        /\ serial' = [serial EXCEPT ![s] = @ + 1]
        /\ stmCache' = [stmCache EXCEPT ![s] = cached]
        /\ procs' = [procs EXCEPT ![p] =
             IF cached >= MAX_STM THEN [Idle EXCEPT !.pc = "fetch", !.sid = s] ELSE Idle]
  /\ UNCHANGED <<vit, cache, now, last, semantic, episodic, call>>

\* triggerPromptUpdate: a client invokes the edge function directly
ConcTrigger(p, s) ==
  /\ procs[p].pc = "idle"
  /\ procs' = [procs EXCEPT ![p] = [Idle EXCEPT !.pc = "fetch", !.sid = s]]
  /\ UNCHANGED <<stm, serial, vit, cache, stmCache, now, last, semantic, episodic, call>>

\* edge function: fetch the session's rows
ConcFetch(p) ==
  /\ procs[p].pc = "fetch"
  /\ procs' = [procs EXCEPT ![p].pc = "upsert", ![p].fetched = stm]
  /\ UNCHANGED <<stm, serial, vit, cache, stmCache, now, last, semantic, episodic, call>>

\* edge function: build the prompt from what was fetched and upsert it
ConcUpsert(p) ==
  /\ procs[p].pc = "upsert"
  /\ cache' = CacheUpsert(cache, procs[p].sid,
                          EnhancedPrompt(procs[p].fetched, vit, procs[p].sid), now)
  /\ procs' = [procs EXCEPT ![p] = Idle]
  /\ UNCHANGED <<stm, serial, vit, stmCache, now, last, semantic, episodic, call>>

\* The store, stmCache and cache after k turns of the long session were
\* recorded one after another by addToSTM, every store call succeeding.
RECURSIVE AfterTurns(_)
AfterTurns(k) ==
  IF k = 0
  THEN [stm |-> {}, stmCache |-> [s \in Sessions |-> Undefined],
        cache |-> [s \in Sessions |-> NoRow]]
  ELSE LET prev == AfterTurns(k - 1)
           victim == CHOOSE v \in Victims(prev.stm, LongSession) : TRUE
           r == AppendRows(prev.stm, LongSession, k, {}, victim)
           sc == [prev.stmCache EXCEPT ![LongSession] = Min(r.turn, MAX_STM)]
           m == MaybeTriggerPromptUpdate(prev.cache, r.stm, {}, sc, LongSession, {}, {}, 0)
       IN [stm |-> r.stm, stmCache |-> m.stmCache, cache |-> m.cache]

\* Calls start to overlap once the long session has had Warm turns.
InitConc ==
  /\ semantic = {}
  /\ episodic = {}
  /\ call = NoCall
  /\ stm = AfterTurns(Warm).stm
  /\ serial = [s \in Sessions |-> IF s = LongSession THEN Warm ELSE 0]
  /\ vit = {}
  /\ cache = AfterTurns(Warm).cache
  /\ stmCache = AfterTurns(Warm).stmCache
  /\ now = 0
  /\ last = Done("init", << >>, "ok", {}, 0, EmptyText, "none", NoRow)
  /\ procs = [p \in Procs |-> Idle]

NextConc ==
  \/ \E p \in Procs : ConcCount(p, LongSession)
  \/ \E p \in Procs : \E victim \in OldestRows(stm, procs[p].sid) \cup {NoVictim} :
       ConcOldest(p, victim)
  \/ \E p \in Procs : ConcDelete(p)
  \/ \E p \in Procs : ConcInsert(p)
  \/ \E p \in Procs : ConcTrigger(p, LongSession)
  \/ \E p \in Procs : ConcFetch(p)
  \/ \E p \in Procs : ConcUpsert(p)

SpecConc == InitConc /\ [][NextConc]_vars

\* The failed invocation keeps its process from ever starting another call.
ConcFailHeld(p) ==
  /\ procs[p].pc \in {"fetch", "upsert"}
  /\ procs' = [procs EXCEPT ![p].pc = "held"]
  /\ last' = Done("updateSystemPrompt", procs[p].sid, "ok", {}, 0, EmptyText, "failed",
                  cache[procs[p].sid])
  /\ UNCHANGED <<stm, serial, vit, cache, stmCache, now, semantic, episodic, call>>

\* edge function: a fetch or the upsert returns an error; the catch block
\* answers 500, callUpdateSystemPrompt logs the error and returns.
ConcFail(p) ==
  /\ procs[p].pc \in {"fetch", "upsert"}
  /\ procs' = [procs EXCEPT ![p] = Idle]
  /\ last' = Done("updateSystemPrompt", procs[p].sid, "ok", {}, 0, EmptyText, "failed",
                  cache[procs[p].sid])
  /\ UNCHANGED <<stm, serial, vit, cache, stmCache, now, semantic, episodic, call>>

\* Invocations of the edge function in flight at once, for any session,
\* its store calls free to fail.
NextLive ==
  \/ \E p \in Procs, s \in Sessions : ConcTrigger(p, s)
  \/ \E p \in Procs : ConcFetch(p)
  \/ \E p \in Procs : ConcUpsert(p)
  \/ \E p \in Procs : ConcFail(p)

\* Every store call the edge function awaits returns, with a result or
\* with an error: an invocation that has started takes its next step.
SpecLive ==
  /\ InitConc
  /\ [][NextLive]_vars
  /\ \A p \in Procs : WF_vars(ConcFetch(p) \/ ConcUpsert(p) \/ ConcFail(p))

\* ------------------------------------------------------------------ claims

Appends == {"addToSTM", "saveConversationTurn"}

\* C1: with appends and clears running one at a time and every store call
\* succeeding, no session ever holds more than 10 rows, and an append to a
\* session that holds 10 rows removes exactly one row, one whose
\* turn_number no other row of the session is below, and inserts one.
C1_StmBounded ==
  [][\A s \in Sessions :
       /\ Cardinality({r \in stm' : r.session_id = s}) <= 10
       /\ ( /\ Cardinality({r \in stm : r.session_id = s}) = 10
            /\ {r \in stm' : r.session_id = s} \ stm # {} )
          => \E v \in stm :
               /\ v.session_id = s
               /\ \A q \in stm : q.session_id = s => v.turn_number <= q.turn_number
               /\ {r \in stm : r.session_id = s} \ stm' = {v}
               /\ Cardinality({r \in stm' : r.session_id = s} \ stm) = 1
    ]_vars

\* An 11th append has evicted the row of turn 1 and the session holds 10.
C1_Witness ==
  /\ last.op \in Appends /\ last.status = "ok" /\ last.turn = 11
  /\ Cardinality({r \in stm : r.session_id = last.sid}) = 10
  /\ \A r \in stm : r.session_id = last.sid => r.turn_number >= 2

\* C2: the turn numbers of a session's appends never repeat, so no two
\* live rows of a session carry the same turn_number.
C2_TurnNumbersNeverReused ==
  \A r1, r2 \in stm :
    (r1.session_id = r2.session_id /\ r1.turn_number = r2.turn_number) => r1 = r2

\* C3: with appends of one session in flight at once, the session never
\* holds more than 10 rows and no two rows carry the same turn_number.
C3_OverlappingAppendsSafe ==
  /\ \A s \in Sessions : Cardinality({r \in stm : r.session_id = s}) <= 10
  /\ \A r1, r2 \in stm :
       (r1.session_id = r2.session_id /\ r1.turn_number = r2.turn_number) => r1 = r2

\* C4: at most one rebuild of a session is in progress at any time.
C4_OneRebuildPerSession ==
  \A s \in Sessions :
    Cardinality({p \in Procs : procs[p].pc \in {"fetch", "upsert"} /\ procs[p].sid = s}) <= 1

C8_StaleFallback ==
  ( /\ last.op = "getPrompt" /\ "cacheRead" \notin last.errs
    /\ last.preRow # NoRow /\ now - last.preRow.last_updated > 60
    /\ (last.rebuild = "failed" \/ "cacheReread" \in last.errs) )
  => (last.status = "ok" /\ last.value = last.preRow.prompt)

\* The read after a successful rebuild failed and the stale text, which
\* differs from the row's new text, was returned.
C8_Witness ==
  /\ last.op = "getPrompt" /\ last.errs = {"cacheReread"} /\ last.rebuild = "ok"
  /\ last.preRow # NoRow /\ now - last.preRow.last_updated > 60
  /\ last.value = last.preRow.prompt
  /\ last.value # cache[last.sid].prompt

\* C9: whatever store calls fail, getPrompt does not throw and returns a
\* non-empty prompt; when every store call it makes fails, the prompt is
\* the base prompt.
C9_AlwaysAPrompt ==
  last.op = "getPrompt"
  => /\ last.status = "ok"
     /\ last.value.pre # ""
     /\ {"cacheRead", "ctxSTM", "ctxVIT"} \subseteq last.errs => last.value = BasePrompt

\* Every store call failed for a session that has a cache row, a turn and
\* an importance entry: the base prompt came back.
C9_Witness ==
  /\ last.op = "getPrompt" /\ last.errs = {"cacheRead", "ctxSTM", "ctxVIT"}
  /\ last.preRow # NoRow
  /\ \E r \in stm : r.session_id = last.sid
  /\ \E r \in vit : r.priority >= 3
  /\ last.value = BasePrompt

\* C10: an append that meets a store error (count, find oldest, delete
\* oldest, insert) ends by throwing.
C10_AppendErrorsSurface ==
  (last.op \in Appends /\ last.errs # {}) => last.status = "throw"

\* C11: every priority stored in the Importance store is one of 1..5,
\* whatever value the caller passed (7 is stored as 5, 0 as 1).
C11_StoredPriorityClamped ==
  \A r \in vit : r.priority \in 1..5

\* C12: an addVIT that stores an entry of priority 4 or more for a user
\* with every store call succeeding triggers a rebuild when a session of
\* that user (an id generateSessionId made from the user id) has turns.
C12_HighPriorityRebuildsSessions ==
  ( /\ last.op = "addVIT" /\ last.status = "ok" /\ last.errs = {}
    /\ \E r \in vit : r.id = Cardinality(vit) /\ r.priority >= 4
    /\ \E t \in stm : SplitFirst(t.session_id) = last.sid )
  => last.rebuild # "none"

\* C15: a manual rebuild request (updateMemory, forcePromptUpdate) that
\* meets no store error causes a rebuild of its session, whatever the
\* session's number of turns and the age of its cache row.
C15_ManualRequestRebuilds ==
  (last.op \in {"updateMemory", "forcePromptUpdate"} /\ last.errs = {})
  => last.rebuild # "none"

\* C13: the 10th of 10 appends made one after another to an empty session
\* is given turn number 10 and triggers a rebuild, after which the
\* session's cached prompt lists the session's 10 turns, turn 1 to turn 10
\* in this order.
C13_TenthAppendRebuilds ==
  (last.op \in Appends /\ last.status = "ok" /\ serial[last.sid] = 10)
  => /\ last.turn = 10
     /\ last.rebuild = "ok"
     /\ cache[last.sid] # NoRow
     /\ Len(cache[last.sid].prompt.stm) = 10
     /\ \A k \in 1..10 : cache[last.sid].prompt.stm[k][1] = k
     /\ {cache[last.sid].prompt.stm[k] : k \in 1..10}
          = {<<r.turn_number, r.id>> : r \in {q \in stm : q.session_id = last.sid}}

\* The 10th append has just returned and the cache row lists 10 turns.
C13_Witness ==
  /\ last.op \in Appends /\ last.status = "ok" /\ serial[last.sid] = 10
  /\ last.turn = 10 /\ last.rebuild = "ok"
  /\ Len(cache[last.sid].prompt.stm) = 10
  /\ cache[last.sid].prompt.stm[1][1] = 1 /\ cache[last.sid].prompt.stm[10][1] = 10

\* C14: an append that succeeds triggers a rebuild of its session exactly
\* when the session holds 10 or more turns after it.
C14_RebuildIffFull ==
  (last.op \in Appends /\ last.status = "ok")
  => (last.rebuild # "none"
        <=> Cardinality({r \in stm : r.session_id = last.sid}) >= 10)

\* An append to a session that was already full evicted a turn and
\* triggered a rebuild again.
C14_Witness ==
  /\ last.op \in Appends /\ last.status = "ok" /\ last.turn = 11
  /\ last.rebuild # "none"
  /\ Cardinality({r \in stm : r.session_id = last.sid}) = 10

C19_FailedRebuildKeepsRow ==
  [][ last'.rebuild = "failed" => cache' = cache ]_vars

\* A rebuild failed for a session whose row is out of date: the row is
\* still the old one.
C19_Witness ==
  /\ last.op = "triggerPromptUpdate" /\ last.rebuild = "failed"
  /\ last.preRow # NoRow /\ cache[last.sid] = last.preRow
  /\ cache[last.sid].prompt # EnhancedPrompt(stm, vit, last.sid)

C21_ClassifyPriority ==
  call.fn = "extractVITFromConversation" =>
    LET t == ToLowerCase(call.args[1] \o " " \o call.args[2])
        high == \E k \in HighPriorityKeywords : Includes(t, k)
        medium == \E k \in MediumPriorityKeywords : Includes(t, k)
    IN /\ (call.result = {}) <=> (~high /\ ~medium)
       /\ \A r \in call.result :
            /\ r.priority \in {3, 5}
            /\ high => r.priority = 5
            /\ (medium /\ ~high) => r.priority = 3

\* A text with a high-priority and a medium-priority keyword got priority 5.
C21_Witness ==
  /\ call.fn = "extractVITFromConversation"
  /\ call.args = <<"I like my job", "ok">>
  /\ \E r \in call.result : r.priority = 5

\* C22: a result of extractVITFromConversation has at least one tag; it
\* has the tag "general" exactly when none of the six topic checks
\* matched, and then "general" is its only tag.
C22_GeneralOnlyWithoutTopic ==
  call.fn = "extractVITFromConversation" =>
    LET t == ToLowerCase(call.args[1] \o " " \o call.args[2])
        topic == \E n \in 1..Len(TopicChecks) :
                    Includes(t, TopicChecks[n][2]) \/ Includes(t, TopicChecks[n][3])
    IN \A r \in call.result :
         /\ Len(r.tags) > 0
         /\ (\E i \in 1..Len(r.tags) : r.tags[i] = "general") <=> ~topic
         /\ (\E i \in 1..Len(r.tags) : r.tags[i] = "general") => r.tags = <<"general">>

\* "My PASSWORD is x" got priority 5 and the one tag "general".
C22_Witness ==
  /\ call.fn = "extractVITFromConversation"
  /\ call.args = <<"My PASSWORD is x", "">>
  /\ call.result = {[content |-> <<"My PASSWORD is x", "">>, tags |-> <<"general">>,
                     priority |-> 5]}

\* C30: validateVITPriority applied to a whole number p returns a value in
\* 1..5: p itself when p is in 1..5, 5 when p > 5 and 1 when p < 1;
\* applying it to its own result changes nothing.
C30_PriorityClamp ==
  call.fn = "validateVITPriority" =>
    LET p == call.args[1]
        r == call.result
    IN /\ r \in 1..5
       /\ p \in 1..5 => r = p
       /\ p > 5 => r = 5
       /\ p < 1 => r = 1
       /\ ValidateVITPriority(r) = r

\* A number above 5 was brought down to 5.
C30_Witness ==
  /\ call.fn = "validateVITPriority"
  /\ call.args[1] > 5
  /\ call.result = 5

\* C23: a chat in which storing the classified turn fails (addVIT throws
\* inside autoExtractVIT) still returns the LLM response, and the row
\* addToSTM inserted for the turn is in the store.
C23_ExtractionFailureSwallowed ==
  (last.op = "chat" /\ "vitInsert" \in last.errs) =>
    /\ last.status = "ok"
    /\ call.result = {call.args[2]}
    /\ \E r \in stm : /\ r.session_id = last.sid
                        /\ r.id = serial[last.sid]
                        /\ r.turn_number = last.turn

\* A turn that classifies as important was answered, its importance row
\* was refused by the store, and none was added.
C23_Witness ==
  /\ last.op = "chat"
  /\ last.errs = {"vitInsert"}
  /\ call.args[1] = "My PASSWORD is x"
  /\ last.status = "ok"
  /\ vit = {}

\* C24: an invocation of the edge function whose episodic fetch fails, and
\* nothing else, succeeds and leaves the session's cache row holding the
\* prompt built from the same stores with no episodic entry at all.
C24_EpisodicFailureTolerated ==
  (last.op = "updateSystemPrompt" /\ last.errs = {"rbEpisodic"}) =>
    /\ last.status = "200"
    /\ cache[last.sid] # NoRow
    /\ cache[last.sid].last_updated = now
    /\ cache[last.sid].prompt = PromptText(stm, vit, semantic, {}, last.sid, FALSE)

\* The session has summaries and its row listed them; the rebuild whose
\* episodic fetch failed replaced the row by one without them.
C24_Witness ==
  /\ last.op = "updateSystemPrompt" /\ last.errs = {"rbEpisodic"}
  /\ \E r \in episodic : r.session_id = last.sid
  /\ last.preRow # NoRow /\ Len(last.preRow.prompt.epi) > 0
  /\ cache[last.sid].prompt.epi = << >>

\* C25: a clear of a session (clearSTM, clearConversationHistory) that
\* succeeds leaves the session without any row in short_term_memory; a
\* clear, succeeding or not, leaves the rows of every other session, the
\* importance, semantic and episodic entries and every cache row as they
\* were, and one that fails leaves the session's rows too.
C25_ClearTouchesOnlySession ==
  [][ last'.op \in {"clearSTM", "clearConversationHistory"} =>
        /\ last'.status = "ok" => SessionRows(stm', last'.sid) = {}
        /\ last'.status # "ok" => stm' = stm
        /\ \A s \in Sessions \ {last'.sid} : SessionRows(stm', s) = SessionRows(stm, s)
        /\ stm' \subseteq stm
        /\ vit' = vit /\ semantic' = semantic /\ episodic' = episodic
        /\ cache' = cache
    ]_vars

\* A session was cleared while another session held turns, every other
\* store held entries and the cleared session's cache row listed its turns.
C25_Witness ==
  /\ last.op \in {"clearSTM", "clearConversationHistory"} /\ last.status = "ok"
  /\ \E r \in stm : r.session_id # last.sid
  /\ vit # {} /\ semantic # {} /\ episodic # {}
  /\ cache[last.sid] # NoRow /\ Len(cache[last.sid].prompt.stm) > 0

\* C26 as claimed: getSTMEntries(sessionId, limit) returns min(limit, live
\* count) rows of the session, those with the largest turn_numbers, in
\* ascending order of turn_number.
C26_RecentTurnsAscending ==
  (last.op = "getSTMEntries" /\ call.fn = "getSTMEntries") =>
    LET rows == SessionRows(stm, call.args[1])
        q == call.result
    IN /\ Len(q) = Min(call.args[2], Cardinality(rows))
       /\ \A i \in 1..Len(q) : q[i] \in rows
       /\ \A i \in 1..Len(q) : \A r \in rows :
            (\A j \in 1..Len(q) : q[j] # r) => r.turn_number <= q[i].turn_number
       /\ \A i, j \in 1..Len(q) : i < j => q[i].turn_number <= q[j].turn_number

\* C26 as amended: a getSTMEntries whose read succeeds returns
\* min(limit, live count) rows of the session, those with the largest
\* turn_numbers, newest first (descending turn_number); one whose read
\* fails returns the empty list.
C26_RecentTurnsDescending ==
  (last.op = "getSTMEntries" /\ call.fn = "getSTMEntries") =>
    LET rows == SessionRows(stm, call.args[1])
        q == call.result
    IN IF call.args[3] THEN q = << >>
       ELSE /\ Len(q) = Min(call.args[2], Cardinality(rows))
            /\ \A i \in 1..Len(q) : q[i] \in rows
            /\ \A i \in 1..Len(q) : \A r \in rows :
                 (\A j \in 1..Len(q) : q[j] # r) => r.turn_number <= q[i].turn_number
            /\ \A i, j \in 1..Len(q) : i < j => q[i].turn_number >= q[j].turn_number

\* A session of more turns than the limit was read: the newest turn came
\* first and the oldest turns were left out.
C26_Witness ==
  /\ last.op = "getSTMEntries" /\ call.fn = "getSTMEntries" /\ ~call.args[3]
  /\ Len(call.result) = call.args[2]
  /\ Len(call.result) >= 2
  /\ Cardinality(SessionRows(stm, call.args[1])) > call.args[2]
  /\ call.result[1].turn_number > call.result[2].turn_number

\* C27: a trigger check (updateMemory) starts a rebuild of a session only
\* when the store holds at least 10 rows of that session; a count of 10
\* remembered in stmCache from before the rows were deleted starts none.
C27_TriggerFollowsStore ==
  (last.op = "updateMemory" /\ last.rebuild # "none") =>
    CountRows(stm, last.sid) >= MAX_STM

\* C28: semantic_memory never holds two rows with the same user_id and
\* key, and after addSemanticEntry(key, value), the store being reachable,
\* the user's row for that key holds that value, whether the key was new
\* or not.
C28_SemanticLastWriteWins ==
  /\ \A r1, r2 \in semantic : (r1.user_id = r2.user_id /\ r1.key = r2.key) => r1 = r2
  /\ (last.op = "addSemanticEntry" /\ "semUpsert" \notin last.errs) =>
       \E r \in semantic : /\ r.user_id = last.sid
                            /\ r.key = call.args[1]
                            /\ r.value = call.args[2]

\* C29: after a rebuild that succeeded, the Importance section of the
\* session's prompt lists rows of vit_memory that belong to the session's
\* user and have priority 3 or more, each once, all of them or 20 if there
\* are more, by priority descending and then last_updated descending, and
\* no row left out ranks above a row listed.
C29_ImportanceSection ==
  (last.op = "updateSystemPrompt" /\ last.rebuild = "ok") =>
    LET q == cache[last.sid].prompt.vit
        qualifying == {r \in vit : r.user_id = <<Head(last.sid)>> /\ r.priority >= 3}
        RowOf(k) == CHOOSE r \in vit : r.id = q[k][2]
        listed == {RowOf(k) : k \in 1..Len(q)}
        Above(a, b) == \/ a.priority > b.priority
                       \/ a.priority = b.priority /\ a.last_updated > b.last_updated
    IN /\ \A k \in 1..Len(q) : /\ \E r \in qualifying : r.id = q[k][2]
                                /\ q[k][1] = RowOf(k).priority
                                /\ q[k][1] \notin {1, 2}
       /\ \A j, k \in 1..Len(q) : j # k => q[j][2] # q[k][2]
       /\ Len(q) <= 20
       /\ Len(q) = IF Cardinality(qualifying) > 20 THEN 20 ELSE Cardinality(qualifying)
       /\ \A j, k \in 1..Len(q) : j < k => ~Above(RowOf(k), RowOf(j))
       /\ \A r \in qualifying \ listed : \A l \in listed : ~Above(r, l)

\* More than 20 rows qualify, rows of priority 2 and rows of another user
\* are in the table, and the rebuilt section has 20 lines.
C29_Witness ==
  /\ last.op = "updateSystemPrompt" /\ last.rebuild = "ok"
  /\ Cardinality({r \in vit : r.user_id = <<Head(last.sid)>> /\ r.priority >= 3}) > 20
  /\ \E r \in vit : r.user_id = <<Head(last.sid)>> /\ r.priority < 3
  /\ \E r \in vit : r.user_id = OtherUser
  /\ Len(cache[last.sid].prompt.vit) = 20

\* C31: no session ever holds more than 10 turns, also when a store call
\* of the eviction step fails: an append that could not find or delete the
\* oldest turn of a full session inserts nothing.
C31_EvictionFailureKeepsBound ==
  /\ \A s \in Sessions : CountRows(stm, s) <= MAX_STM
  /\ (last.op \in Appends /\ last.errs \cap {"oldest", "delete"} # {}) =>
       last.status = "throw"

\* C32: a rebuild that read older store contents never overwrites the
\* result of a rebuild that read newer ones: once a session's cache row
\* holds the prompt of the stores as they are, a step that changes no
\* store leaves that text in the row.
C32_NoStaleOverwrite ==
  [][\A s \in Sessions :
       ( /\ cache[s] # NoRow
         /\ cache[s].prompt = EnhancedPrompt(stm, vit, s)
         /\ stm' = stm /\ vit' = vit /\ semantic' = semantic /\ episodic' = episodic )
       => cache'[s].prompt = cache[s].prompt
    ]_vars

\* C33: the prompt rebuilt for a session holds Importance and semantic
\* entries of the session's owner only, also when user ids contain '_' or
\* agree up to their first '_'.
C33_PromptOfOwnerOnly ==
  (last.op = "updateSystemPrompt" /\ last.rebuild = "ok") =>
    LET p == cache[last.sid].prompt
        owner == OwnerOf(last.sid)
    IN /\ \A k \in 1..Len(p.vit) :
            \E r \in vit : r.id = p.vit[k][2] /\ r.user_id = owner
       /\ \A k \in 1..Len(p.sem) :
            \E r \in semantic : /\ r.user_id = owner
                                 /\ r.key = p.sem[k][1] /\ r.value = p.sem[k][2]

\* C34: an append whose STM-full trigger invoked a rebuild that failed
\* still returns normally, and the turn it inserted is in the store.
C34_RebuildFailureNotThrown ==
  (last.op \in Appends /\ last.rebuild = "failed") =>
    /\ last.status = "ok"
    /\ \E r \in stm : /\ r.session_id = last.sid
                       /\ r.id = serial[last.sid]
                       /\ r.turn_number = last.turn

\* The tenth turn of a session was appended, the rebuild it triggered
\* failed, and the session holds the turn.
C34_Witness ==
  /\ last.op \in Appends /\ last.rebuild = "failed" /\ last.status = "ok"
  /\ last.turn = MAX_STM
  /\ \E r \in stm : r.session_id = last.sid /\ r.turn_number = MAX_STM

\* C35: a chat whose LLM call fails throws and leaves no turn, no
\* Importance entry and no cache write; and the prompt used for a turn
\* does not hold the turn being answered.
C35_StoresChangeAfterLLM ==
  [][ /\ (last'.op = "chat" /\ "llm" \in last'.errs) =>
           /\ last'.status = "throw"
           /\ stm' = stm /\ vit' = vit /\ cache' = cache
      /\ last'.op = "chat" =>
           \A r \in stm' \ stm : \A k \in 1..Len(last'.value.stm) :
              last'.value.stm[k] # StmLine(r)
    ]_vars

\* C35, amended: a chat whose LLM call fails throws and leaves no turn and
\* no Importance entry, and the cache row changes only by the rebuild that
\* reading a stale row invokes; and the prompt used for a turn does not
\* hold the turn being answered.
C35_StoresChangeAfterLLMOrStaleRead ==
  [][ /\ (last'.op = "chat" /\ "llm" \in last'.errs) =>
           /\ last'.status = "throw"
           /\ stm' = stm /\ vit' = vit
           /\ cache' # cache =>
                /\ cache[last'.sid] # NoRow
                /\ now - cache[last'.sid].last_updated > 60
                /\ last'.rebuild = "ok"
                /\ \A s \in DOMAIN cache : s # last'.sid => cache'[s] = cache[s]
      /\ last'.op = "chat" =>
           \A r \in stm' \ stm : \A k \in 1..Len(last'.value.stm) :
              last'.value.stm[k] # StmLine(r)
    ]_vars

\* The LLM call of a turn failed after the read of the prompt had found
\* the session's row stale and rebuilt it from the turns stored so far.
C35_Witness ==
  /\ last.op = "chat" /\ "llm" \in last.errs /\ last.status = "throw"
  /\ last.rebuild = "ok"
  /\ last.preRow # NoRow
  /\ cache[last.sid] # last.preRow
  /\ Len(last.value.stm) > 0

C37_InlinePrompt ==
  (last.op = "getPrompt" /\ "cacheRead" \notin last.errs /\ last.preRow = NoRow) =>
    LET v == last.value
        rows == {r \in stm : r.session_id = last.sid}
        entries == {r \in vit : r.user_id \in Users /\ r.priority >= 3}
        TurnOf(k) == CHOOSE r \in rows : r.id = v.stm[k][2]
        EntryOf(k) == CHOOSE r \in entries : r.id = v.vit[k][2]
        listed == {TurnOf(k) : k \in 1..Len(v.stm)}
    IN /\ v.pre = "base" /\ v.sem = << >> /\ v.epi = << >>
       /\ IF "ctxSTM" \in last.errs THEN v.stm = << >>
          ELSE /\ Len(v.stm) = IF Cardinality(rows) > 5 THEN 5 ELSE Cardinality(rows)
               /\ \A k \in 1..Len(v.stm) :
                    \E r \in rows : v.stm[k] = <<r.turn_number, r.id>>
               /\ \A j, k \in 1..Len(v.stm) : j < k =>
                    /\ v.stm[j][2] # v.stm[k][2]
                    /\ v.stm[j][1] <= v.stm[k][1]
               /\ \A r \in rows \ listed : \A l \in listed :
                    r.turn_number <= l.turn_number
       /\ IF "ctxVIT" \in last.errs THEN v.vit = << >>
          ELSE /\ Len(v.vit) = Cardinality(entries)
               /\ \A k \in 1..Len(v.vit) :
                    \E r \in entries : v.vit[k] = <<r.priority, r.id>>
               /\ \A j, k \in 1..Len(v.vit) : j < k =>
                    /\ v.vit[j][2] # v.vit[k][2]
                    /\ v.vit[j][1] >= v.vit[k][1]
       /\ (v.stm = << >> /\ v.vit = << >>) => v = BasePrompt

\* A prompt was built for a session of more than 5 turns whose user has
\* more than 20 entries of priority 3 or more next to lower ones and to
\* those of another user: 5 turns and all those entries are in it.
C37_Witness ==
  /\ last.op = "getPrompt" /\ last.errs = {} /\ last.preRow = NoRow
  /\ CountRows(stm, last.sid) > 5
  /\ Len(last.value.stm) = 5
  /\ Len(last.value.vit) > 20
  /\ \E r \in vit : r.user_id \in Users /\ r.priority < 3
  /\ \E r \in vit : r.user_id = OtherUser

\* C38: the text sanitizeText returns has at most 2000 characters, no
\* whitespace at either end and no two whitespace characters in a row, and
\* sanitizing it again returns it unchanged, whatever the length of the
\* input.
C38_SanitizeIdempotent ==
  call.fn = "sanitizeText" =>
    \A r \in call.result :
      /\ Len(r) <= 2000
      /\ Len(r) > 0 => (~IsSpace(r, 1) /\ ~IsSpace(r, Len(r)))
      /\ \A i \in 1..(Len(r) - 1) : ~(IsSpace(r, i) /\ IsSpace(r, i + 1))
      /\ SanitizeText(r) = r
====
